---- MODULE Spec2Model ----
(***************************************************************************)
(* Model of security/luks_encrypt_drive.py: the LUKS provisioning run      *)
(* (main and the LuksEncryptor methods it calls, in program order), the    *)
(* external tools it drives and the operating-system state they change.    *)
(*                                                                         *)
(* Every Python str is modelled as a sequence of tokens (a token is one    *)
(* character, or one fixed piece of text); concatenation is \o.  A path,   *)
(* a command-line argument, a log line and the passphrase are all such     *)
(* sequences, so "the passphrase occurs in this line" is a computed        *)
(* sub-sequence test and not a flag.                                       *)
(*                                                                         *)
(* The module also models the Optimizer of "optimize remote                *)
(* databases/remote_script.py" (optremdbs.py and optimize_dbs.py are the   *)
(* same program with other names): worker threads draining a shared queue  *)
(* of database names.  The two programs share nothing; each has its own    *)
(* specification, in which the other program's variables do not change.    *)
(***************************************************************************)
EXTENDS Integers, Sequences, FiniteSets, TLC

\* ---------------------------------------------------------------- bounds
\* Longest --label value drawn.
MaxLabelLen == 1
\* Most mount points lsblk reports for the device.
MaxMounts == 1
\* Cap on the chain of os.execvp re-executions (the code's own chain is 1 long).
MaxExecs == 2
\* Most entries get_databases returns.
MaxDatabases == 3
\* MAX_WORKERS of the Optimizer (30 in remote_script.py, 10 in optremdbs.py
\* and optimize_dbs.py), scaled down.
MAX_WORKERS == 2

\* --------------------------------------------------------------- strings
S(tok) == <<tok>>

Range(s) == {s[i] : i \in 1..Len(s)}

\* sub occurs in s as a contiguous piece (Python: sub in s), sub non-empty.
Contains(s, sub) ==
    /\ Len(sub) > 0
    /\ Len(sub) <= Len(s)
    /\ \E i \in 1..(Len(s) - Len(sub) + 1) :
          SubSeq(s, i, i + Len(sub) - 1) = sub

\* "".join(args), used where a command is printed.
RECURSIVE Flatten(_)
Flatten(args) ==
    IF args = <<>> THEN <<>> ELSE Head(args) \o S(" ") \o Flatten(Tail(args))

IsPrefix(s, t) == Len(s) <= Len(t) /\ SubSeq(t, 1, Len(s)) = s

\* str.strip(): leading and trailing whitespace removed.
Whitespace == {" ", "\t"}

RECURSIVE lstrip(_)
lstrip(s) ==
    IF s # <<>> /\ Head(s) \in Whitespace THEN lstrip(Tail(s)) ELSE s

RECURSIVE rstrip(_)
rstrip(s) ==
    IF s # <<>> /\ s[Len(s)] \in Whitespace
    THEN rstrip(SubSeq(s, 1, Len(s) - 1)) ELSE s

strip(s) == rstrip(lstrip(s))

\* The lines of a text: the pieces between newlines (a last piece without a
\* newline is a line too).
RECURSIVE LinesOf(_, _)
LinesOf(text, current) ==
    IF text = <<>> THEN (IF current = <<>> THEN <<>> ELSE <<current>>)
    ELSE IF Head(text) = "\n" THEN <<current>> \o LinesOf(Tail(text), <<>>)
    ELSE LinesOf(Tail(text), Append(current, Head(text)))

\* ------------------------------------------------------------ characters
\* The characters a label is drawn from: an ASCII letter, the underscore,
\* ASCII punctuation, and a non-ASCII letter (U+00E9, e with acute accent).
Chars == {"a", "_", "-", "U+00E9"}

\* str.isalnum() on one character: true of every Unicode letter and digit.
isalnum(c) == c \in {"a", "U+00E9"}

\* The label check of line 65.
LabelSyntaxOk(label) ==
    \A i \in 1..Len(label) : isalnum(label[i]) \/ label[i] = "_"

Labels == UNION {[1..n -> Chars] : n \in 0..MaxLabelLen}

\* ----------------------------------------------------------------- paths
SCRIPT == S("/opt/luks_encrypt_drive.py")
DISK == S("/dev/testloop0")
BOOT == S("/boot")
ROOTHOME == S("/root")
BYID == S("/dev/disk/by-id/testloop0")
NODEV == S("/dev/nodev")

\* The device arguments drawn: the disk by its /dev/disk/by-id link, /boot,
\* the script's own file, and a path at which there is nothing.
DeviceArgs == {BYID, BOOT, SCRIPT, NODEV}

\* What /boot is on this machine: the usual directory, or a symbolic link to
\* the disk's device node.
BootTargets == {BOOT, DISK}

VARIABLES
    pc,         \* position in main(); "exit" once the process has ended
    exitCode,   \* process exit status, -1 while it runs
    diag,       \* which error ended the process ("" for none)
    argv,       \* sys.argv of the current process image
    xpw,        \* the xkcdpass module was importable (module-level xpw)
    uid,        \* os.getuid()
    installs,   \* successful "pip install xkcdpass" runs along the exec chain
    execs,      \* os.execvp re-executions along the chain
    luks,       \* the LuksEncryptor object's fields
    typed,      \* the line the operator entered at the confirmation prompt
    sys,        \* operating-system state the tools read and change
    calls,      \* every subprocess invoked, in order
    log,        \* every line written to the terminal, in order
    steps       \* the LuksEncryptor methods invoked, in order

\* The Optimizer and the script around it.
VARIABLES
    databases,  \* the module-level list get_databases() returned
    workload,   \* Optimizer.workload, a queue.Queue
    results,    \* Optimizer.results, a queue.Queue
    workers,    \* Optimizer.workers, the list of Thread objects
    thread,     \* each worker thread: its position and its local counters
    opt_pc,     \* position of the main thread of the script
    totals,     \* what get_results() returned
    work        \* per entry put into the workload: who took it, what was counted

luksvars == <<pc, exitCode, diag, argv, xpw, uid, installs, execs, luks, typed,
              sys, calls, log, steps>>

optvars == <<databases, workload, results, workers, thread, opt_pc, totals, work>>

vars == <<pc, exitCode, diag, argv, xpw, uid, installs, execs, luks, typed,
          sys, calls, log, steps,
          databases, workload, results, workers, thread, opt_pc, totals, work>>

\* ------------------------------------------------------------- arguments
NO_REINSTALL == S("--no-reinstall")

\* parse_arguments: positional device, --label, hidden --no-reinstall.
args_device == argv[2]
args_label == argv[4]
args_no_reinstall == \E i \in 1..Len(argv) : argv[i] = NO_REINSTALL

\* --------------------------------------------------------- the file system
\* Path.resolve(): symbolic links followed.
resolve(p) ==
    CASE p = BOOT -> sys.boot_target
      [] p = BYID -> DISK
      [] OTHER -> p

\* The kind of file a resolved path names.
FileKind(p) ==
    CASE p = DISK -> "blk"
      [] p \in {BOOT, ROOTHOME} -> "dir"
      [] p = SCRIPT -> "reg"
      [] OTHER -> "absent"

exists(p) == FileKind(p) # "absent"
is_block_device(p) == FileKind(p) = "blk"

\* Path.samefile on two resolved paths (OSError when one is missing is the
\* caller's except branch: no match).
samefile(p, q) == exists(p) /\ exists(q) /\ p = q

critical_paths == <<resolve(BOOT), resolve(ROOTHOME), resolve(SCRIPT)>>

\* ------------------------------------------------------------ the object
NoLuks == [device_path |-> <<>>, label |-> <<>>, crypt_name |-> <<>>,
           mount_point |-> <<>>, calling_user |-> <<>>, user_home |-> <<>>,
           symlink_path |-> <<>>, service_name |-> <<>>,
           pass_phrase |-> <<>>, backup_path |-> <<>>, key_file |-> <<>>]

\* pwd.getpwuid(uid)[0]: the account of a user id.
getpwuid(id) == IF id = 0 THEN S("root") ELSE S("operator")

\* pwd.getpwnam(name).pw_dir: the home directory of an account.
pw_dir(name) == IF name = S("root") THEN ROOTHOME ELSE S("/home/") \o name

\* _get_calling_user, line 61: SUDO_USER when it is set and not empty, else
\* the account of the process.
get_calling_user ==
    IF sys.SUDO_USER # <<>> THEN sys.SUDO_USER ELSE getpwuid(uid)

LuksEncryptor_fields(device, label) ==
    [device_path |-> resolve(device),
     label |-> label,
     crypt_name |-> label \o S("_crypt"),
     mount_point |-> S("/mnt/") \o label,
     calling_user |-> get_calling_user,
     user_home |-> pw_dir(get_calling_user),
     symlink_path |-> pw_dir(get_calling_user) \o S("/") \o label,
     service_name |-> label \o S("-crypt.service"),
     pass_phrase |-> <<>>,
     backup_path |-> <<>>,
     key_file |-> <<>>]

mapper_path == S("/dev/mapper/") \o luks.crypt_name

\* ------------------------------------------------------- output and exit
Line(by, text) == [by |-> by, text |-> text]

Call(by, args, stdin, rc) == [by |-> by, argv |-> args, stdin |-> stdin, rc |-> rc]

\* Variant of Traceback: the error output also shows what was fed to the
\* command.
Traceback_with_input(by, c) ==
    Line(by, S("subprocess.CalledProcessError: Command ") \o Flatten(c.argv)
             \o S("returned non-zero exit status; input was ") \o c.stdin)

\* The traceback of an uncaught CalledProcessError names the command.
Traceback(by, c) ==
    Line(by, S("subprocess.CalledProcessError: Command ") \o Flatten(c.argv)
             \o S("returned non-zero exit status"))

\* raise SystemExit(message): the message goes to stderr, status 1.
SystemExit(kind, line) ==
    /\ pc' = "exit"
    /\ exitCode' = 1
    /\ diag' = kind
    /\ log' = log \o line

\* ------------------------------------------------------------ the tools
\* secrets.token_bytes(512): the key material, and its length in bytes.
KEY_BYTES == 512
KeyMaterial == S("token_bytes")

NoFile == [present |-> FALSE, content |-> <<>>, size |-> 0, mode |-> "none",
           owner |-> <<>>]

\* xkcdpass: numwords words of the word list joined by the delimiter.
NUMWORDS == 6
Wordlist == {"correct"}

RECURSIVE join(_, _)
join(words, delimiter) ==
    IF Len(words) = 0 THEN <<>>
    ELSE IF Len(words) = 1 THEN S(words[1])
    ELSE S(words[1]) \o S(delimiter) \o join(Tail(words), delimiter)

generate_xkcdpassword(w) == join([i \in 1..NUMWORDS |-> w], "-")

\* What the operator may enter at the prompt (input() has dropped the newline).
YES == <<"Y", "E", "S">>
OperatorInputs ==
    {YES, <<" ", "Y", "E", "S", " ">>, <<"y", "e", "s">>,
     <<"Y", "E", "S", "!">>, <<"N", "O">>, <<>>}

\* A unit file in /etc/systemd/system: none, or one of the computed name that
\* something else left there.
NoUnit == [present |-> FALSE, name |-> <<>>, ExecStart |-> <<>>, ExecStop |-> <<>>]
ForeignUnit(name) == [present |-> TRUE, name |-> name, ExecStart |-> <<>>, ExecStop |-> <<>>]

\* The unit's start or stop action has not run.
NotRun == [ran |-> <<>>, status |-> -1, attached |-> FALSE, mounted |-> FALSE,
           mapper |-> FALSE]

\* /etc/fstab.  No step before add_fstab_entry reads or writes the file, so
\* what it holds is drawn when add_fstab_entry opens it: nothing, one entry
\* ended by a newline, or one entry whose line is not ended by a newline.
FstabNotOpened == [opened |-> FALSE, before |-> <<>>, content |-> <<>>]
ROOT_ENTRY == S("UUID=uuid-of-root   /   ext4   defaults   0   1")
FstabContents == {<<>>, ROOT_ENTRY \o S("\n"), ROOT_ENTRY}

\* What may be at the path of the convenience link: nothing, a symbolic link
\* (to some other place), a regular file or a directory.  No step before
\* setup_mount_and_symlink looks at the path, so what is there is drawn when
\* that step looks (sys.link_found); sys.symlink is what is there afterwards.
NotLookedAt == [kind |-> "not looked at", target |-> <<>>]
NoLink == [kind |-> "absent", target |-> <<>>]
LinkStates ==
    {NoLink,
     [kind |-> "symlink", target |-> S("/mnt/elsewhere")],
     [kind |-> "file", target |-> <<>>],
     [kind |-> "dir", target |-> <<>>]}

\* SUDO_USER in the environment of the process: not set (a root login), or
\* the account that called sudo.
SudoUsers == {<<>>, S("operator")}

\* The machine before the program has touched it: what /boot is, whether the
\* label index has the label, whether the mount point and the unit file
\* exist, whether the device carries a LUKS header, whether a mapping of the
\* name is active, and SUDO_USER.
Machine(bt, inIndex, mp, unit, isl, mo, su, label) ==
    [boot_target |-> bt,
     SUDO_USER |-> su,
     fsLabels |-> IF inIndex THEN {label} ELSE {},
     mount_point |-> mp,
     mounted |-> FALSE,
     unit |-> IF unit THEN ForeignUnit(label \o S("-crypt.service"))
              ELSE NoUnit,
     reloaded |-> FALSE,
     enabled |-> {},
     service |-> "inactive",
     last_start |-> NotRun,
     last_stop |-> NotRun,
     isLuks |-> isl,
     formats |-> 0,
     slots |-> {},
     mapper |-> mo,
     mapped_fs |-> FALSE,
     reported |-> {},
     devMounts |-> {},
     keyfile |-> NoFile,
     keyfile_before |-> NoFile,
     keyfile_trace |-> <<>>,
     luks_keys |-> {},
     link_found |-> NotLookedAt,
     symlink |-> NotLookedAt,
     fstab |-> FstabNotOpened,
     backup |-> NoFile]

\* The Optimizer script is not running.
OptimizerNotStarted ==
    /\ databases = <<>>
    /\ workload = <<>>
    /\ results = <<>>
    /\ workers = <<>>
    /\ thread = <<>>
    /\ opt_pc = "not started"
    /\ totals = [sc |-> 0, fl |-> 0]
    /\ work = <<>>

\* ------------------------------------------------------------------ Init
\* The operator starts the program with a device and a label (the hidden
\* --no-reinstall is only ever added by the re-execution); the module may or
\* may not be importable; the machine may be in any state.
Init ==
    /\ pc = "main"
    /\ exitCode = -1
    /\ diag = ""
    /\ \E d \in DeviceArgs, l \in Labels :
          argv = <<SCRIPT, d, S("--label"), l>>
    /\ xpw \in BOOLEAN
    /\ uid \in {0, 1000}
    /\ installs = 0
    /\ execs = 0
    /\ luks = NoLuks
    /\ typed = <<>>
    /\ \E bt \in BootTargets, inIndex \in BOOLEAN, mp \in BOOLEAN,
          unit \in BOOLEAN, isl \in BOOLEAN, mo \in BOOLEAN,
          su \in SudoUsers :
          sys = Machine(bt, inIndex, mp, unit, isl, mo, su, args_label)
    /\ calls = <<>>
    /\ log = <<>>
    /\ steps = <<>>
    /\ OptimizerNotStarted

\* ------------------------------------------------------------------ main
\* main, lines 337-346: the dependency check on the module-level xpw.
main ==
    /\ pc = "main"
    /\ IF ~xpw
       THEN IF args_no_reinstall
            THEN /\ SystemExit("StillNotImportable",
                        <<Line("main", S("xkcdpass still not importable after install attempt."))>>)
                 /\ UNCHANGED <<argv, xpw, uid, installs, execs, luks, typed,
                                sys, calls, steps>>
            ELSE /\ pc' = "handle_missing_xkcdpass"
                 /\ UNCHANGED <<exitCode, diag, argv, xpw, uid, installs, execs,
                                luks, typed, sys, calls, log, steps>>
       ELSE /\ pc' = "getuid"
            /\ UNCHANGED <<exitCode, diag, argv, xpw, uid, installs, execs,
                           luks, typed, sys, calls, log, steps>>
    /\ UNCHANGED optvars

\* Variant of new_args: the guard flag is not appended.
new_args_unguarded(old) == old

\* new_args = [sys.executable, *sys.argv, "--no-reinstall"], less the interpreter.
new_args(old) == old \o <<NO_REINSTALL>>

\* handle_missing_xkcdpass: pip install, then os.execvp of the same program.
\* The new process image starts main again; whether the import now works is
\* the environment's answer.
handle_missing_xkcdpass ==
    /\ pc = "handle_missing_xkcdpass"
    /\ execs < MaxExecs
    /\ \E pip_ok \in BOOLEAN, importable \in BOOLEAN :
          LET c == Call("handle_missing_xkcdpass",
                        <<S("python3"), S("-m"), S("pip"), S("install"), S("xkcdpass")>>,
                        <<>>, IF pip_ok THEN 0 ELSE 1)
              l1 == Line("handle_missing_xkcdpass", S("xkcdpass not found -> installing it now..."))
          IN  /\ calls' = Append(calls, c)
              /\ IF pip_ok
                 THEN /\ installs' = installs + 1
                      /\ execs' = execs + 1
                      /\ argv' = new_args(argv)
                      /\ xpw' = importable
                      /\ pc' = "main"
                      /\ log' = log \o <<l1, Line("handle_missing_xkcdpass",
                                                  S("xkcdpass installed. Restarting script..."))>>
                      /\ UNCHANGED <<exitCode, diag>>
                 ELSE /\ importable = FALSE
                      /\ SystemExit("InstallFailed",
                            <<l1, Line("handle_missing_xkcdpass",
                                       S("ERROR: Failed to install xkcdpass"))>>)
                      /\ UNCHANGED <<argv, xpw, installs, execs>>
    /\ UNCHANGED <<uid, luks, typed, sys, steps>>
    /\ UNCHANGED optvars

\* Variant of not_root: the root check lets every account through.
not_root_unchecked == FALSE

\* main, line 348: os.getuid() != 0.
not_root == uid # 0

\* main, lines 348-351: the root check, then LuksEncryptor(args.device, args.label).
getuid ==
    /\ pc = "getuid"
    /\ IF not_root
       THEN /\ SystemExit("NotRoot",
                  <<Line("main", S("ERROR: This script must be run as root"))>>)
            /\ UNCHANGED luks
       ELSE /\ luks' = LuksEncryptor_fields(args_device, args_label)
            /\ pc' = "_validate_label_safety"
            /\ UNCHANGED <<exitCode, diag, log>>
    /\ UNCHANGED <<argv, xpw, uid, installs, execs, typed, sys, calls, steps>>
    /\ UNCHANGED optvars

\* -------------------------------------------------------------- the order
\* Variant of MainOrder: the key file is created before the filesystem.
MainOrder_keyfile_first ==
    <<"_validate_label_safety", "_validate_device_safety",
      "generate_passphrase", "confirm_destruction", "unmount_drive",
      "format_luks", "backup_luks_header", "open_container(use_keyfile=False)",
      "create_keyfile", "create_filesystem", "add_keyfile_to_luks",
      "open_container(use_keyfile=True)", "setup_mount_and_symlink",
      "add_fstab_entry", "create_systemd_service", "cleanup",
      "print_setup_summary">>

\* Variant of MainOrder: the device is formatted before its mount points are
\* looked for.
MainOrder_format_before_unmount ==
    <<"_validate_label_safety", "_validate_device_safety",
      "generate_passphrase", "confirm_destruction", "format_luks",
      "unmount_drive", "backup_luks_header", "open_container(use_keyfile=False)",
      "create_filesystem", "create_keyfile", "add_keyfile_to_luks",
      "open_container(use_keyfile=True)", "setup_mount_and_symlink",
      "add_fstab_entry", "create_systemd_service", "cleanup",
      "print_setup_summary">>

\* Variant of MainOrder: the container is opened with the key file before the
\* key file has been added to a slot.
MainOrder_open_before_addkey ==
    <<"_validate_label_safety", "_validate_device_safety",
      "generate_passphrase", "confirm_destruction", "unmount_drive",
      "format_luks", "backup_luks_header", "open_container(use_keyfile=False)",
      "create_filesystem", "create_keyfile", "open_container(use_keyfile=True)",
      "add_keyfile_to_luks", "setup_mount_and_symlink",
      "add_fstab_entry", "create_systemd_service", "cleanup",
      "print_setup_summary">>

\* The methods in the order __init__ (lines 56-57) and main (lines 353-370)
\* call them.
MainOrder ==
    <<"_validate_label_safety", "_validate_device_safety",
      "generate_passphrase", "confirm_destruction", "unmount_drive",
      "format_luks", "backup_luks_header", "open_container(use_keyfile=False)",
      "create_filesystem", "create_keyfile", "add_keyfile_to_luks",
      "open_container(use_keyfile=True)", "setup_mount_and_symlink",
      "add_fstab_entry", "create_systemd_service", "cleanup",
      "print_setup_summary">>

IndexIn(seq, x) == CHOOSE i \in 1..Len(seq) : seq[i] = x

\* Where control goes when method m returns normally.
After(m) ==
    IF IndexIn(MainOrder, m) = Len(MainOrder) THEN "exit"
    ELSE MainOrder[IndexIn(MainOrder, m) + 1]

\* Method m is entered: it is the one control is at.
Enter(m) ==
    /\ pc = m
    /\ steps' = Append(steps, m)

\* Method m returns normally to its caller.
Return(m) ==
    /\ pc' = After(m)
    /\ exitCode' = IF After(m) = "exit" THEN 0 ELSE exitCode
    /\ UNCHANGED diag

\* An uncaught CalledProcessError of command c: traceback, status 1.
Uncaught(m, before, c) ==
    SystemExit("CalledProcessError", before \o <<Traceback(m, c)>>)

\* ------------------------------------------------------------ validation
\* blkid -L <label>: prints the device carrying the label, or exits 2.
blkid_L(label) ==
    IF label \in sys.fsLabels
    THEN [rc |-> 0, out |-> S("/dev/sdz1")]
    ELSE [rc |-> 2, out |-> <<>>]

\* Variant of LabelCollision: the answer of blkid is not looked at.
LabelCollision_ignored(r) == FALSE

\* The collision test of lines 69-70: blkid printed something.
LabelCollision(r) == r.rc = 0 /\ strip(r.out) # <<>>

\* Variant of mount_point_exists: the mount point is not looked at.
mount_point_exists_unchecked == FALSE

\* Line 74: self.mount_point.exists().
mount_point_exists == sys.mount_point

\* Line 78: Path(f"/etc/systemd/system/{service}").exists().
service_exists == sys.unit.present

\* _validate_label_safety, lines 63-81.
validate_label_safety ==
    LET m == "_validate_label_safety"
        label == luks.label
        r == blkid_L(label)
        c == Call(m, <<S("blkid"), S("-L"), label>>, <<>>, r.rc)
    IN
    /\ Enter(m)
    /\ IF ~LabelSyntaxOk(label)
       THEN /\ SystemExit("InvalidLabelSyntax",
                  <<Line(m, S("ERROR: Label ") \o label
                            \o S(" should contain only alphanumeric characters and underscores."))>>)
            /\ UNCHANGED calls
       ELSE /\ calls' = Append(calls, c)
            /\ IF LabelCollision(r)
               THEN SystemExit("LabelCollision",
                       <<Line(m, S("ERROR: Filesystem with label ") \o label
                                 \o S(" already exists on ") \o r.out)>>)
               ELSE IF mount_point_exists
               THEN SystemExit("MountPointExists",
                       <<Line(m, S("ERROR: Mount point ") \o luks.mount_point
                                 \o S(" already exists"))>>)
               ELSE IF service_exists
               THEN SystemExit("ServiceExists",
                       <<Line(m, S("ERROR: Systemd service ") \o luks.service_name
                                 \o S(" already exists"))>>)
               ELSE /\ log' = Append(log, Line(m, S("Label validation passed for ") \o label))
                    /\ Return(m)
    /\ UNCHANGED <<argv, xpw, uid, installs, execs, luks, typed, sys>>
    /\ UNCHANGED optvars

\* The verdict of _validate_device_safety's path checks, lines 84-97.
DevicePathVerdict(device_path) ==
    IF ~exists(device_path) \/ ~is_block_device(device_path)
    THEN "NotABlockDevice"
    ELSE IF \E i \in 1..Len(critical_paths) : samefile(device_path, critical_paths[i])
    THEN "ProtectedPathAlias"
    ELSE "ok"

\* Variant of isLuks_rc: the probe reports a LUKS device as not LUKS.
isLuks_rc_not_luks == IF sys.isLuks THEN 1 ELSE 1

\* cryptsetup isLuks <device>: status 0 exactly when the device has a LUKS header.
isLuks_rc == IF sys.isLuks THEN 0 ELSE 1

\* Variant of AlreadyLuks: the SystemExit of line 104 is swallowed with the
\* CalledProcessError (a bare except).
AlreadyLuks_swallowed(c) == FALSE

\* Lines 99-106: check_output returned (status 0), so the SystemExit of line
\* 104 is raised; CalledProcessError means "not LUKS".
AlreadyLuks(c) == c.rc = 0

\* _validate_device_safety, lines 83-108.
validate_device_safety ==
    LET m == "_validate_device_safety"
        v == DevicePathVerdict(luks.device_path)
        c == Call(m, <<S("cryptsetup"), S("isLuks"), luks.device_path>>, <<>>, isLuks_rc)
    IN
    /\ Enter(m)
    /\ IF v = "NotABlockDevice"
       THEN /\ SystemExit(v, <<Line(m, S("ERROR: ") \o luks.device_path
                                       \o S(" does not exist or is not a block device"))>>)
            /\ UNCHANGED calls
       ELSE IF v = "ProtectedPathAlias"
       THEN /\ SystemExit(v, <<Line(m, S("ERROR: Refusing to encrypt ") \o luks.device_path
                                       \o S(" - matches critical path"))>>)
            /\ UNCHANGED calls
       ELSE /\ calls' = Append(calls, c)
            /\ IF AlreadyLuks(c)
               THEN SystemExit("AlreadyEncrypted",
                       <<Line(m, S("ERROR: ") \o luks.device_path
                                 \o S(" is already a LUKS container."))>>)
               ELSE /\ log' = Append(log, Line(m, S("Device check passed: ")
                                      \o luks.device_path \o S(" is safe to encrypt.")))
                    /\ Return(m)
    /\ UNCHANGED <<argv, xpw, uid, installs, execs, luks, typed, sys>>
    /\ UNCHANGED optvars

\* ------------------------------------------------- passphrase and the gate
\* The lines generate_passphrase logs, lines 120-121.
generate_passphrase_log(m, pass_phrase) ==
    <<Line(m, S("Generated initial passphrase: ") \o pass_phrase),
      Line(m, S("!!! SAVE THIS PASSPHRASE IN A SAFE PLACE !!!"))>>

\* generate_passphrase, lines 114-121.
generate_passphrase ==
    LET m == "generate_passphrase" IN
    /\ Enter(m)
    /\ IF ~xpw
       THEN /\ SystemExit("DependencyUnavailable",
                  <<Line(m, S("xkcdpass not available."))>>)
            /\ UNCHANGED luks
       ELSE \E w \in Wordlist :
               /\ luks' = [luks EXCEPT !.pass_phrase = generate_xkcdpassword(w)]
               /\ log' = log \o generate_passphrase_log(m, luks'.pass_phrase)
               /\ Return(m)
    /\ UNCHANGED <<argv, xpw, uid, installs, execs, typed, sys, calls>>
    /\ UNCHANGED optvars

\* Variant of Confirmed: the comparison ignores case.
Confirmed_anycase(line) == strip(line) \in {YES, <<"y", "e", "s">>}

\* The test of line 125 on the line the operator entered.
Confirmed(line) == strip(line) = YES

\* confirm_destruction, lines 123-127.
confirm_destruction ==
    LET m == "confirm_destruction"
        warn == Line(m, S("WARNING: This will IRREVERSIBLY DESTROY all data on ")
                        \o luks.device_path)
    IN
    /\ Enter(m)
    /\ \E line \in OperatorInputs :
          /\ typed' = line
          /\ IF ~Confirmed(line)
             THEN /\ log' = log \o <<warn, Line(m, S("Aborted."))>>
                  /\ pc' = "exit"
                  /\ exitCode' = 0
                  /\ diag' = "OperatorAbort"
             ELSE /\ log' = Append(log, warn)
                  /\ Return(m)
    /\ UNCHANGED <<argv, xpw, uid, installs, execs, luks, sys, calls>>
    /\ UNCHANGED optvars

\* ------------------------------------------------------- checked commands
\* Variant of check: check=True is left out, the status is not looked at.
check_omitted(c) == FALSE

\* subprocess.run(..., check=True) and check_output: a non-zero status raises
\* CalledProcessError.
check(c) == c.rc # 0

\* The exit statuses a tool may return: it can succeed only when what it
\* needs is there, and it can always fail.
Rcs(possible) == IF possible THEN {0, 1} ELSE {1}

\* Variant of Executed: a command that raises does not stop those after it.
Executed_all(cs) == cs

\* Of commands run one after the other, those that are run at all: up to and
\* including the first that raises.
Executed(cs) ==
    IF \E i \in 1..Len(cs) : check(cs[i])
    THEN SubSeq(cs, 1, CHOOSE i \in 1..Len(cs) :
                          check(cs[i]) /\ \A j \in 1..(i - 1) : ~check(cs[j]))
    ELSE cs

Raised(cs) == \E i \in 1..Len(cs) : check(cs[i])

\* Command number i of cs was run and ended with status 0.
Ran(cs, i) == i <= Len(Executed(cs)) /\ cs[i].rc = 0

stdin_passphrase == luks.pass_phrase \o S("\n")

\* ----------------------------------------------------------- unmount_drive
MountPointOf(i) == <<"/media/mp", ToString(i)>>

\* unmount_drive, lines 129-146: lsblk lists the n mount points the device
\* has at that moment and each is unmounted in turn; any CalledProcessError
\* ends the run.  sys.reported is what lsblk listed, sys.devMounts what is
\* still mounted afterwards.
unmount_drive ==
    LET m == "unmount_drive"
        l0 == Line(m, S("Checking for active mounts on ") \o luks.device_path \o S("..."))
    IN
    /\ Enter(m)
    /\ \E lsblk_rc \in {0, 1}, n \in 0..MaxMounts, failAt \in 0..MaxMounts :
          LET mps == [i \in 1..n |-> MountPointOf(i)]
              lsblk == Call(m, <<S("lsblk"), S("-p"), S("-n"), S("-l"), S("-o"),
                                 S("MOUNTPOINT"), luks.device_path>>, <<>>, lsblk_rc)
              umounts == [i \in 1..n |->
                            Call(m, <<S("umount"), S("-l"), mps[i]>>, <<>>,
                                 IF i = failAt THEN 1 ELSE 0)]
              cs == <<lsblk>> \o (IF lsblk_rc = 0 THEN umounts ELSE <<>>)
              run == Executed(cs)
          IN  /\ failAt <= n
              /\ lsblk_rc # 0 => n = 0
              /\ calls' = calls \o run
              /\ sys' = [sys EXCEPT !.reported = 1..n,
                                     !.devMounts = {i \in 1..n : ~Ran(cs, i + 1)}]
              /\ IF Raised(cs)
                 THEN SystemExit("MountStatusUnverified",
                         <<l0, Line(m, S("ERROR: Failed to verify mount status with lsblk. Aborting."))>>)
                 ELSE /\ log' = log \o <<l0>>
                           \o (IF n > 0
                               THEN <<Line(m, S("Found ") \o S(ToString(n))
                                              \o S(" active mount(s). Unmounting now..."))>>
                               ELSE <<>>)
                           \o [i \in 1..n |-> Line(m, S("Unmounting: ") \o mps[i])]
                           \o <<Line(m, IF n > 0 THEN S("All associated mounts removed.")
                                        ELSE S("No active mounts found on device."))>>
                      /\ Return(m)
    /\ UNCHANGED <<argv, xpw, uid, installs, execs, luks, typed>>
    /\ UNCHANGED optvars

\* ------------------------------------------------------------- the container
\* Variant of format_luks_args: the passphrase is handed over as an argument.
format_luks_args_with_key ==
    <<S("cryptsetup"), S("luksFormat"), S("--type"), S("luks2"),
      S("--batch-mode"), S("--key-file=-"), luks.pass_phrase, luks.device_path>>

\* The command line of format_luks, line 150.
format_luks_args ==
    <<S("cryptsetup"), S("luksFormat"), S("--type"), S("luks2"),
      S("--batch-mode"), luks.device_path>>

\* format_luks, lines 148-151.  sys.formats counts the times the device has
\* been formatted.
format_luks ==
    LET m == "format_luks"
        l0 == Line(m, S("Formatting with LUKS2..."))
    IN
    /\ Enter(m)
    /\ \E rc \in Rcs(TRUE) :
          LET c == Call(m, format_luks_args, stdin_passphrase, rc) IN
          /\ calls' = Append(calls, c)
          /\ sys' = IF rc = 0
                    THEN [sys EXCEPT !.isLuks = TRUE, !.slots = {luks.pass_phrase},
                                     !.formats = @ + 1]
                    ELSE sys
          /\ IF check(c)
             THEN Uncaught(m, <<l0>>, c)
             ELSE /\ log' = Append(log, l0)
                  /\ Return(m)
    /\ UNCHANGED <<argv, xpw, uid, installs, execs, luks, typed>>
    /\ UNCHANGED optvars

\* Variant of chmod: the mode is left as the file was created.
chmod_skipped(f, mode) == f

\* Path.chmod(mode).
chmod(f, mode) == [f EXCEPT !.mode = mode]

\* Variant of chown: the owner is left as the file was created.
chown_skipped(f, owner) == f

\* os.chown(path, uid, gid): the account of that uid owns the file.
chown(f, owner) == [f EXCEPT !.owner = owner]

\* cryptsetup luksHeaderBackup, run by root: the backup file as the tool
\* leaves it.
luksHeaderBackup_file ==
    [present |-> TRUE, content |-> S("luks-header"), size |-> 0,
     mode |-> "0400", owner |-> S("root")]

\* datetime.now().strftime("%Y-%m-%d"), line 156.
DATE == S("YYYY-MM-DD")

\* backup_luks_header, lines 153-170.
backup_luks_header ==
    LET m == "backup_luks_header"
        path == luks.user_home \o S("/backups/") \o luks.label
                   \o S("-luks-header-") \o DATE \o S(".bak")
        l0 == Line(m, S("Backing up LUKS header to: ") \o path)
    IN
    /\ Enter(m)
    /\ luks' = [luks EXCEPT !.backup_path = path]
    /\ \E rc \in Rcs(sys.isLuks) :
          LET c == Call(m, <<S("cryptsetup"), S("luksHeaderBackup"), luks.device_path,
                             S("--header-backup-file"), path>>, <<>>, rc)
          IN
          /\ calls' = Append(calls, c)
          /\ IF check(c)
             THEN /\ Uncaught(m, <<l0>>, c)
                  /\ UNCHANGED sys
             ELSE /\ sys' = [sys EXCEPT !.backup =
                               chown(chmod(luksHeaderBackup_file, "0600"),
                                     luks.calling_user)]
                  /\ log' = Append(log, l0)
                  /\ Return(m)
    /\ UNCHANGED <<argv, xpw, uid, installs, execs, typed>>
    /\ UNCHANGED optvars

\* Variant of is_container_open: the mapping is never found active.
is_container_open_never == FALSE

\* _is_container_open, lines 110-112.
is_container_open == sys.mapper

\* The luksOpen command line and input of open_container, lines 186-193.
luksOpen_args(use_keyfile) ==
    <<S("cryptsetup"), S("luksOpen"), luks.device_path, luks.crypt_name>>
       \o (IF use_keyfile THEN <<S("--key-file"), luks.key_file>> ELSE <<>>)

luksOpen_stdin(use_keyfile) ==
    IF use_keyfile THEN <<>> ELSE stdin_passphrase

\* The credential a luksOpen presents: the key file's content or the passphrase.
Presented(use_keyfile) ==
    IF use_keyfile THEN sys.keyfile.content ELSE luks.pass_phrase

\* open_container, lines 172-193: an active mapping of the same name is
\* closed first; then luksOpen with the key file or the passphrase.
open_container(m, use_keyfile) ==
    LET l0 == Line(m, S("Container ") \o luks.crypt_name
                      \o S(" is already open -> closing it first..."))
        l1 == Line(m, S("Successfully closed existing mapping ") \o luks.crypt_name)
        l2 == Line(m, S("Opening container ") \o luks.crypt_name
                      \o (IF use_keyfile THEN S(" with keyfile...")
                          ELSE S(" with passphrase...")))
        was_open == is_container_open
    IN
    /\ Enter(m)
    /\ \E close_rc \in Rcs(~sys.mounted), open_rc \in {0, 1} :
          LET close == Call(m, <<S("cryptsetup"), S("luksClose"), luks.crypt_name>>,
                            <<>>, close_rc)
              closed == ~was_open \/ close_rc = 0
              open == Call(m, luksOpen_args(use_keyfile),
                           luksOpen_stdin(use_keyfile), open_rc)
          IN
          IF was_open /\ close_rc # 0
          THEN /\ open_rc = 1
               /\ calls' = Append(calls, close)
               /\ SystemExit("CannotCleanUp",
                     <<l0, Line(m, S("Cannot clean up existing open container"))>>)
               /\ UNCHANGED sys
          ELSE /\ ~was_open => close_rc = 1
               /\ open_rc \in Rcs(sys.isLuks /\ Presented(use_keyfile) \in sys.slots)
               /\ calls' = calls \o (IF was_open THEN <<close>> ELSE <<>>) \o <<open>>
               /\ sys' = [sys EXCEPT !.mapper = (open_rc = 0)]
               /\ IF check(open)
                  THEN Uncaught(m, (IF was_open THEN <<l0, l1>> ELSE <<>>) \o <<l2>>, open)
                  ELSE /\ log' = log \o (IF was_open THEN <<l0, l1>> ELSE <<>>) \o <<l2>>
                       /\ Return(m)
    /\ UNCHANGED <<argv, xpw, uid, installs, execs, luks, typed>>
    /\ UNCHANGED optvars

\* main, line 359.
open_container_passphrase == open_container("open_container(use_keyfile=False)", FALSE)

\* main, line 364.
open_container_keyfile == open_container("open_container(use_keyfile=True)", TRUE)

\* create_filesystem, lines 195-198.
create_filesystem ==
    LET m == "create_filesystem"
        l0 == Line(m, S("Creating ext4 filesystem with label ") \o luks.label \o S("..."))
    IN
    /\ Enter(m)
    /\ \E rc \in Rcs(sys.mapper) :
          LET c == Call(m, <<S("mkfs.ext4"), S("-L"), luks.label, mapper_path>>, <<>>, rc) IN
          /\ calls' = Append(calls, c)
          /\ sys' = IF rc = 0
                    THEN [sys EXCEPT !.mapped_fs = TRUE,
                                     !.fsLabels = @ \cup {luks.label}]
                    ELSE sys
          /\ IF check(c)
             THEN Uncaught(m, <<l0>>, c)
             ELSE /\ log' = Append(log, l0)
                  /\ Return(m)
    /\ UNCHANGED <<argv, xpw, uid, installs, execs, luks, typed>>
    /\ UNCHANGED optvars

\* secrets.token_bytes(n): n bytes of key material.
token_bytes(n) == [content |-> KeyMaterial, size |-> n]

\* The file creation mask of the process: the usual 022, or 077.
Umasks == {"022", "077"}

\* The mode of a file created by open(path, "wb"): 0666 less the mask.
created_mode(umask) == IF umask = "022" THEN "0644" ELSE "0600"

\* What may be at /etc/luks-keys/<label>.key when create_keyfile gets there:
\* nothing, or the key file of an earlier provisioning under the same label.
\* No step before create_keyfile looks at the path (the label check looks at
\* the filesystem label, the mount point and the unit file only), so it is
\* drawn when create_keyfile writes (sys.keyfile_before).
OldKeyfile ==
    [present |-> TRUE, content |-> S("earlier key material"), size |-> 512,
     mode |-> "0600", owner |-> S("root")]
KeyfilesBefore == {NoFile, OldKeyfile}

\* Path.write_bytes(data) by the root process: open(path, "wb") truncates a
\* file that is there, keeping its mode and owner, or creates one with the
\* mode the mask leaves; then the file holds exactly the data.
write_bytes(f, data, umask) ==
    [present |-> TRUE, content |-> data.content, size |-> data.size,
     mode |-> IF f.present THEN f.mode ELSE created_mode(umask),
     owner |-> IF f.present THEN f.owner ELSE S("root")]

\* create_keyfile, lines 200-206.  sys.luks_keys is what the run has written
\* in /etc/luks-keys; sys.keyfile_trace is the key file after each of the
\* three calls of lines 203-205, sys.keyfile the file as the step leaves it.
create_keyfile ==
    LET m == "create_keyfile"
        path == S("/etc/luks-keys/") \o luks.label \o S(".key")
    IN
    /\ Enter(m)
    /\ luks' = [luks EXCEPT !.key_file = path]
    /\ \E before \in KeyfilesBefore, umask \in Umasks :
          LET written == write_bytes(before, token_bytes(KEY_BYTES), umask)
              restricted == chmod(written, "0600")
              owned == chown(restricted, getpwuid(0))
          IN  sys' = [sys EXCEPT
                        !.keyfile_before = before,
                        !.keyfile_trace = <<written, restricted, owned>>,
                        !.keyfile = owned,
                        !.luks_keys = @ \cup {path}]
    /\ log' = Append(log, Line(m, S("Created secure keyfile: ") \o path))
    /\ Return(m)
    /\ UNCHANGED <<argv, xpw, uid, installs, execs, typed, calls>>
    /\ UNCHANGED optvars

\* The command line of add_keyfile_to_luks, line 210.
luksAddKey_args ==
    <<S("cryptsetup"), S("luksAddKey"), luks.device_path, luks.key_file>>

\* add_keyfile_to_luks, lines 208-211.
add_keyfile_to_luks ==
    LET m == "add_keyfile_to_luks"
        l0 == Line(m, S("Adding keyfile as additional unlock slot..."))
    IN
    /\ Enter(m)
    /\ \E rc \in Rcs(sys.isLuks /\ luks.pass_phrase \in sys.slots /\ sys.keyfile.present) :
          LET c == Call(m, luksAddKey_args, stdin_passphrase, rc) IN
          /\ calls' = Append(calls, c)
          /\ sys' = IF rc = 0
                    THEN [sys EXCEPT !.slots = @ \cup {sys.keyfile.content}]
                    ELSE sys
          /\ IF check(c)
             THEN Uncaught(m, <<l0>>, c)
             ELSE /\ log' = Append(log, l0)
                  /\ Return(m)
    /\ UNCHANGED <<argv, xpw, uid, installs, execs, luks, typed>>
    /\ UNCHANGED optvars

\* ------------------------------------------------ mount, fstab and the unit
\* Path.is_symlink().
is_symlink(f) == f.kind = "symlink"

\* Variant of SymlinkBlocked: whatever is at the path is replaced.
SymlinkBlocked_replaced(f) == FALSE

\* Lines 224-230: the path is not a symbolic link and exists.
SymlinkBlocked(f) == ~is_symlink(f) /\ f.kind # "absent"

\* Path.symlink_to(target), the path being free (unlinked or never there).
symlink_to(target) == [kind |-> "symlink", target |-> target]

\* setup_mount_and_symlink, lines 213-232.
setup_mount_and_symlink ==
    LET m == "setup_mount_and_symlink"
        l0 == Line(m, S("Mounting filesystem and creating symlink..."))
    IN
    /\ Enter(m)
    /\ \E rc \in Rcs(sys.mapper /\ sys.mapped_fs), found \in LinkStates :
          LET c == Call(m, <<S("mount"), mapper_path, luks.mount_point>>, <<>>, rc) IN
          /\ calls' = Append(calls, c)
          /\ IF check(c)
             THEN /\ found = NoLink
                  /\ sys' = [sys EXCEPT !.mount_point = TRUE]
                  /\ Uncaught(m, <<l0>>, c)
             ELSE IF SymlinkBlocked(found)
             THEN /\ sys' = [sys EXCEPT !.mount_point = TRUE, !.mounted = (rc = 0),
                                        !.link_found = found, !.symlink = found]
                  /\ SystemExit("SymlinkPathNotSymlink",
                        <<l0, Line(m, S("ERROR: ") \o luks.symlink_path
                                      \o S(" already exists and is not a symlink."))>>)
             ELSE /\ sys' = [sys EXCEPT !.mount_point = TRUE, !.mounted = (rc = 0),
                                        !.link_found = found,
                                        !.symlink = symlink_to(luks.mount_point)]
                  /\ log' = log \o <<l0, Line(m, S("Created symlink: ")
                                       \o luks.symlink_path \o S(" -> ") \o luks.mount_point)>>
                  /\ Return(m)
    /\ UNCHANGED <<argv, xpw, uid, installs, execs, luks, typed>>
    /\ UNCHANGED optvars

INNER_UUID == S("uuid-of-filesystem")

\* The line add_fstab_entry appends, line 239.
fstab_line(uuid) ==
    S("UUID=") \o uuid \o S("   ") \o luks.mount_point
       \o S("   ext4   defaults,noauto   0   2") \o S("\n")

\* open(path, "a") and write(text): the text is put after the last byte.
append_write(content, text) == content \o text

\* add_fstab_entry, lines 234-242.
add_fstab_entry ==
    LET m == "add_fstab_entry" IN
    /\ Enter(m)
    /\ \E rc \in Rcs(sys.mapper /\ sys.mapped_fs) :
          LET c == Call(m, <<S("blkid"), S("-s"), S("UUID"), S("-o"), S("value"),
                             mapper_path>>, <<>>, rc)
          IN
          /\ calls' = Append(calls, c)
          /\ IF check(c)
             THEN /\ Uncaught(m, <<>>, c)
                  /\ UNCHANGED sys
             ELSE /\ \E before \in FstabContents :
                        sys' = [sys EXCEPT !.fstab =
                                  [opened |-> TRUE, before |-> before,
                                   content |-> append_write(before,
                                      fstab_line(IF rc = 0 THEN INNER_UUID ELSE <<>>))]]
                  /\ log' = Append(log, Line(m, S("Added entry to /etc/fstab")))
                  /\ Return(m)
    /\ UNCHANGED <<argv, xpw, uid, installs, execs, luks, typed>>
    /\ UNCHANGED optvars

OUTER_UUID == S("uuid-of-luks-header")

\* One command of a sh -c script: its words, whether it is followed by
\* "|| true", and what joins it to the next command ("&&" or ";").
Cmd(words, or_true, next) == [argv |-> words, or_true |-> or_true, next |-> next]

\* ExecStart of the unit, lines 261-264.
ExecStart(stable_device) ==
    <<Cmd(<<S("cryptsetup"), S("luksOpen"), S("--key-file"), luks.key_file,
            stable_device, luks.crypt_name>>, FALSE, "&&"),
      Cmd(<<S("udevadm"), S("settle")>>, FALSE, "&&"),
      Cmd(<<S("mount"), luks.mount_point>>, FALSE, "")>>

\* Variant of ExecStop: the two commands are joined by && and not tolerated.
ExecStop_and_list ==
    <<Cmd(<<S("umount"), luks.mount_point>>, FALSE, "&&"),
      Cmd(<<S("cryptsetup"), S("luksClose"), luks.crypt_name>>, FALSE, "")>>

\* ExecStop of the unit, lines 266-268.
ExecStop ==
    <<Cmd(<<S("umount"), luks.mount_point>>, TRUE, ";"),
      Cmd(<<S("cryptsetup"), S("luksClose"), luks.crypt_name>>, TRUE, "")>>

\* The unit description written at line 273.
service_content(outer_uuid) ==
    [present |-> TRUE,
     name |-> luks.service_name,
     ExecStart |-> ExecStart(S("/dev/disk/by-uuid/") \o outer_uuid),
     ExecStop |-> ExecStop]

\* Variant of systemctl_commands: the unit is enabled before the reload.
systemctl_commands_enable_first ==
    <<<<S("systemctl"), S("enable"), luks.service_name>>,
      <<S("systemctl"), S("daemon-reload")>>>>

\* The two systemctl commands of lines 275-276, in their order.
systemctl_commands ==
    <<<<S("systemctl"), S("daemon-reload")>>,
      <<S("systemctl"), S("enable"), luks.service_name>>>>

IsReload(c) == c.argv = <<S("systemctl"), S("daemon-reload")>>

IsEnable(c) == Len(c.argv) = 3 /\ c.argv[1] = S("systemctl") /\ c.argv[2] = S("enable")

\* create_systemd_service, lines 244-277: blkid for the outer UUID, the unit
\* file written, then the two systemctl commands.
create_systemd_service ==
    LET m == "create_systemd_service" IN
    /\ Enter(m)
    /\ \E rc1 \in Rcs(sys.isLuks), rc2 \in Rcs(TRUE), rc3 \in Rcs(TRUE) :
          LET cs == <<Call(m, <<S("blkid"), S("-s"), S("UUID"), S("-o"), S("value"),
                                luks.device_path>>, <<>>, rc1),
                      Call(m, systemctl_commands[1], <<>>, rc2),
                      Call(m, systemctl_commands[2], <<>>, rc3)>>
              run == Executed(cs)
          IN
          /\ calls' = calls \o run
          /\ sys' = [sys EXCEPT
                       !.unit = IF check(cs[1]) THEN @ ELSE service_content(OUTER_UUID),
                       !.reloaded = \E i \in 2..3 : Ran(cs, i) /\ IsReload(cs[i]),
                       !.enabled = @ \cup {cs[i].argv[3] : i \in
                                             {j \in 2..3 : Ran(cs, j) /\ IsEnable(cs[j])}}]
          /\ IF Raised(cs)
             THEN Uncaught(m, <<>>, run[Len(run)])
             ELSE /\ log' = Append(log, Line(m, S("Created and enabled systemd service ")
                                                \o luks.service_name))
                  /\ Return(m)
    /\ UNCHANGED <<argv, xpw, uid, installs, execs, luks, typed>>
    /\ UNCHANGED optvars

\* -------------------------------------------------- the unit, once installed
\* sh -c on a script: the commands it runs, given the status each command
\* returns.  A command followed by "|| true" counts as status 0; a non-zero
\* status before "&&" ends the script.
RECURSIVE sh_ran(_, _)
sh_ran(script, rcs) ==
    IF script = <<>> THEN <<>>
    ELSE LET c == Head(script)
             st == IF c.or_true THEN 0 ELSE Head(rcs)
         IN  <<[argv |-> c.argv, rc |-> Head(rcs), status |-> st]>>
                \o (IF c.next = "&&" /\ st # 0 THEN <<>>
                    ELSE sh_ran(Tail(script), Tail(rcs)))

\* The exit status of the script: that of the last command it ran.
sh_status(ran) == IF ran = <<>> THEN 0 ELSE ran[Len(ran)].status

\* /etc/fstab has a line of its own for the mount point (mount <dir> looks
\* the device up there).
HasEntryFor(mount_point) ==
    \E i \in 1..Len(LinesOf(sys.fstab.content, <<>>)) :
       IsPrefix(S("UUID=") \o INNER_UUID \o S("   ") \o mount_point,
                LinesOf(sys.fstab.content, <<>>)[i])

Succeeded(earlier, tool, sub) ==
    \E i \in 1..Len(earlier) :
       /\ earlier[i].rc = 0
       /\ earlier[i].argv[1] = S(tool)
       /\ sub # "" => earlier[i].argv[2] = S(sub)

\* Whether a command of the unit can succeed, in environment env (is the
\* device attached, is the filesystem mounted, is the mapping active) and
\* after the commands that ran before it.
CanSucceed(words, env, earlier) ==
    CASE words[1] = S("cryptsetup") /\ words[2] = S("luksOpen") ->
            /\ env.attached
            /\ ~env.mapper
            /\ words[4] \in sys.luks_keys
            /\ sys.keyfile.content \in sys.slots
      [] words[1] = S("cryptsetup") /\ words[2] = S("luksClose") ->
            /\ env.mapper
            /\ ~env.mounted \/ Succeeded(earlier, "umount", "")
      [] words[1] = S("mount") ->
            /\ env.mapper \/ Succeeded(earlier, "cryptsetup", "luksOpen")
            /\ HasEntryFor(words[2])
      [] words[1] = S("umount") -> env.mounted
      [] OTHER -> TRUE

\* The statuses the commands of a script may return in environment env.
Statuses(script, env) ==
    {rcs \in [1..Len(script) -> {0, 1}] :
       LET ran == sh_ran(script, rcs) IN
       /\ \A i \in 1..Len(script) : i > Len(ran) => rcs[i] = 1
       /\ \A i \in 1..Len(ran) :
             ran[i].rc = 0 => CanSucceed(ran[i].argv, env, SubSeq(ran, 1, i - 1))}

\* What is mounted and mapped after the commands that ran.
AfterUnit(env, ran) ==
    [mounted |-> (env.mounted \/ Succeeded(ran, "mount", ""))
                    /\ ~Succeeded(ran, "umount", ""),
     mapper |-> (env.mapper \/ Succeeded(ran, "cryptsetup", "luksOpen"))
                   /\ ~Succeeded(ran, "cryptsetup", "luksClose")]

\* systemctl start <service> (line 295; at boot, WantedBy=multi-user.target):
\* the enabled unit's ExecStart runs once the installing run has ended.  The
\* disk may or may not be attached yet at that moment.
systemctl_start ==
    /\ pc = "exit"
    /\ exitCode = 0
    /\ sys.unit.present
    /\ sys.unit.name \in sys.enabled
    /\ sys.service = "inactive"
    /\ sys.last_start = NotRun
    /\ \E attached \in BOOLEAN :
          LET env == [attached |-> attached, mounted |-> sys.mounted, mapper |-> sys.mapper] IN
          \E rcs \in Statuses(sys.unit.ExecStart, env) :
             LET ran == sh_ran(sys.unit.ExecStart, rcs) IN
             sys' = [sys EXCEPT
                       !.service = IF sh_status(ran) = 0 THEN "active" ELSE "failed",
                       !.mounted = AfterUnit(env, ran).mounted,
                       !.mapper = AfterUnit(env, ran).mapper,
                       !.last_start = [ran |-> ran, status |-> sh_status(ran),
                                       attached |-> attached, mounted |-> env.mounted,
                                       mapper |-> env.mapper]]
    /\ UNCHANGED <<pc, exitCode, diag, argv, xpw, uid, installs, execs, luks,
                   typed, calls, log, steps>>
    /\ UNCHANGED optvars

\* systemctl stop <service>: the active unit's ExecStop runs.  Since the start
\* the operator may have unmounted the filesystem by hand, and closed the
\* mapping too.
systemctl_stop ==
    /\ sys.service = "active"
    /\ \E mounted \in {sys.mounted, FALSE}, mapper \in {sys.mapper, FALSE} :
          LET env == [attached |-> TRUE, mounted |-> mounted, mapper |-> mapper] IN
          /\ mounted => mapper
          /\ \E rcs \in Statuses(sys.unit.ExecStop, env) :
                LET ran == sh_ran(sys.unit.ExecStop, rcs) IN
                sys' = [sys EXCEPT
                          !.service = IF sh_status(ran) = 0 THEN "inactive" ELSE "failed",
                          !.mounted = AfterUnit(env, ran).mounted,
                          !.mapper = AfterUnit(env, ran).mapper,
                          !.last_stop = [ran |-> ran, status |-> sh_status(ran),
                                         attached |-> TRUE, mounted |-> mounted,
                                         mapper |-> mapper]]
    /\ UNCHANGED <<pc, exitCode, diag, argv, xpw, uid, installs, execs, luks,
                   typed, calls, log, steps>>
    /\ UNCHANGED optvars

\* Variant of cleanup_commands: the mapping is looked at, not closed.
cleanup_commands_status_only ==
    <<<<S("umount"), luks.mount_point>>,
      <<S("cryptsetup"), S("status"), luks.crypt_name>>>>

\* The two commands of cleanup, lines 280-281, in their order.
cleanup_commands ==
    <<<<S("umount"), luks.mount_point>>,
      <<S("cryptsetup"), S("luksClose"), luks.crypt_name>>>>

IsUmount(c) == c.argv[1] = S("umount")

IsLuksClose(c) == c.argv[1] = S("cryptsetup") /\ c.argv[2] = S("luksClose")

\* cleanup, lines 279-282: umount succeeds only on what is mounted; luksClose
\* succeeds only on an active mapping that nothing is mounted from.
cleanup ==
    LET m == "cleanup" IN
    /\ Enter(m)
    /\ \E rc1 \in Rcs(sys.mounted), rc2 \in {0, 1} :
          LET cs == <<Call(m, cleanup_commands[1], <<>>, rc1),
                      Call(m, cleanup_commands[2], <<>>, rc2)>>
              run == Executed(cs)
          IN
          /\ rc2 \in Rcs(IsLuksClose(cs[2]) => (sys.mapper /\ (~sys.mounted \/ rc1 = 0)))
          /\ calls' = calls \o run
          /\ sys' = [sys EXCEPT
                       !.mounted = IF \E i \in 1..2 : Ran(cs, i) /\ IsUmount(cs[i])
                                   THEN FALSE ELSE @,
                       !.mapper = IF \E i \in 1..2 : Ran(cs, i) /\ IsLuksClose(cs[i])
                                  THEN FALSE ELSE @]
          /\ IF Raised(cs)
             THEN Uncaught(m, <<>>, run[Len(run)])
             ELSE /\ log' = Append(log, Line(m, S("Temporary mount and LUKS mapping closed.")))
                  /\ Return(m)
    /\ UNCHANGED <<argv, xpw, uid, installs, execs, luks, typed>>
    /\ UNCHANGED optvars

\* The lines print_setup_summary logs, lines 285-295.
summary_lines(m) ==
    <<Line(m, S("=== SETUP COMPLETE ===")),
      Line(m, S("Device encrypted:           ") \o luks.device_path),
      Line(m, S("Filesystem label:           ") \o luks.label),
      Line(m, S("Passphrase (save it!):      ") \o luks.pass_phrase),
      Line(m, S("Keyfile:                    ") \o luks.key_file),
      Line(m, S("LUKS header backup:         ") \o luks.backup_path),
      Line(m, S("Mountpoint:                 ") \o luks.mount_point),
      Line(m, S("Symlink in home:            ") \o luks.symlink_path),
      Line(m, S("Systemd service:            ") \o luks.label \o S("-crypt.service (enabled)")),
      Line(m, S("fstab entry added (noauto)")),
      Line(m, S("To mount now:\n   sudo systemctl start ") \o luks.service_name)>>

\* print_setup_summary, lines 284-295; main then returns: status 0.
print_setup_summary ==
    LET m == "print_setup_summary" IN
    /\ Enter(m)
    /\ log' = log \o summary_lines(m)
    /\ Return(m)
    /\ UNCHANGED <<argv, xpw, uid, installs, execs, luks, typed, sys, calls>>
    /\ UNCHANGED optvars

\* ------------------------------------------------------ the specification
Next ==
    \/ main
    \/ handle_missing_xkcdpass
    \/ getuid
    \/ validate_label_safety
    \/ validate_device_safety
    \/ generate_passphrase
    \/ confirm_destruction
    \/ unmount_drive
    \/ format_luks
    \/ backup_luks_header
    \/ open_container_passphrase
    \/ create_filesystem
    \/ create_keyfile
    \/ add_keyfile_to_luks
    \/ open_container_keyfile
    \/ setup_mount_and_symlink
    \/ add_fstab_entry
    \/ create_systemd_service
    \/ cleanup
    \/ print_setup_summary
    \/ systemctl_start
    \/ systemctl_stop

Spec == Init /\ [][Next]_vars

\* ------------------------------------------------- one run after another
\* The program is started again, on the same device and with the same label,
\* after a run that formatted the device has ended; by root or by another
\* account.  The machine is as that run and the unit left it; the new
\* process has its own object, output and subprocesses.
rerun ==
    /\ pc = "exit"
    /\ sys.formats >= 1
    /\ pc' = "main"
    /\ exitCode' = -1
    /\ diag' = ""
    /\ argv' = <<SCRIPT, args_device, S("--label"), args_label>>
    /\ uid' \in {0, 1000}
    /\ installs' = 0
    /\ execs' = 0
    /\ luks' = NoLuks
    /\ typed' = <<>>
    /\ calls' = <<>>
    /\ log' = <<>>
    /\ steps' = <<>>
    /\ UNCHANGED <<xpw, sys>>
    /\ UNCHANGED optvars

RerunNext == Next \/ rerun

RerunSpec == Init /\ [][RerunNext]_vars

\* ======================================================================
\* optimize remote databases/remote_script.py
\* ======================================================================
\* The luks_encrypt_drive program is not running.
LuksNotStarted ==
    /\ pc = "not started"
    /\ exitCode = -1
    /\ diag = ""
    /\ argv = <<>>
    /\ xpw = FALSE
    /\ uid = 0
    /\ installs = 0
    /\ execs = 0
    /\ luks = NoLuks
    /\ typed = <<>>
    /\ sys = Machine(BOOT, FALSE, FALSE, FALSE, FALSE, FALSE, <<>>, <<>>)
    /\ calls = <<>>
    /\ log = <<>>
    /\ steps = <<>>

\* Database names are numbered: the server has the databases 1..n.
Names(n) == [i \in 1..n |-> i]

\* get_databases, lines 153-166: the rows of every LIKE pattern, appended in
\* the order of the patterns.  A name two patterns match is appended twice.
\* The first pattern matches the n databases; a second one, when given,
\* matches database 1 again.
get_databases(n, second) ==
    Names(n) \o (IF second /\ n >= 1 THEN <<1>> ELSE <<>>)

\* What the OPTIMIZE TABLE statements of one database add to a worker's
\* counters, lines 68-74: two tables optimized, or one of two failed.
TableResults == {[sc |-> 2, fl |-> 0], [sc |-> 1, fl |-> 1]}

\* queue.Queue.put on an unbounded queue.
put(q, item) == Append(q, item)

\* A Thread that has not been started, and the locals of _worker, line 63.
\* entry is the position in the workload of the name in db, and put counts
\* the records the thread has put; the program keeps neither.
NewThread == [pc |-> "created", successes |-> 0, failures |-> 0, db |-> 0,
              entry |-> 0, put |-> 0]

\* An entry of the workload nobody has taken.
NewEntry(db) == [db |-> db, by |-> {}, optimized |-> 0, sc |-> 0, fl |-> 0]

\* The creation loop of init, lines 93-101: append a worker, then stop when
\* the list is as long as the queue or as long as MAX_WORKERS.
RECURSIVE create_workers(_, _)
create_workers(ws, qlen) ==
    LET appended == Append(ws, Len(ws) + 1)
    IN  IF Len(appended) = qlen \/ Len(appended) = MAX_WORKERS
        THEN appended
        ELSE create_workers(appended, qlen)

\* get_results that stops after the first record.
sum_results_first_only(q) ==
    IF q = <<>> THEN [sc |-> 0, fl |-> 0] ELSE [sc |-> q[1].sc, fl |-> q[1].fl]

\* The loop of get_results, lines 126-135: add up every record of the queue.
RECURSIVE sum_results(_)
sum_results(q) ==
    IF q = <<>> THEN [sc |-> 0, fl |-> 0]
    ELSE LET rest == sum_results(Tail(q))
         IN  [sc |-> q[1].sc + rest.sc, fl |-> q[1].fl + rest.fl]

Finished(w) == thread[w].pc \in {"done", "raised"}

\* The script is started.
OptInit ==
    /\ LuksNotStarted
    /\ databases = <<>>
    /\ workload = <<>>
    /\ results = <<>>
    /\ workers = <<>>
    /\ thread = <<>>
    /\ opt_pc = "main"
    /\ totals = [sc |-> 0, fl |-> 0]
    /\ work = <<>>

\* __main__, lines 170-181: get_databases, which raises mysql.Error when the
\* server is offline, and the dry run, which only prints the count.
optimizer_main ==
    /\ opt_pc = "main"
    /\ \E n \in 0..MaxDatabases, second \in BOOLEAN, dry_run \in BOOLEAN,
          online \in BOOLEAN :
          /\ Len(get_databases(n, second)) <= MaxDatabases
          /\ IF ~online
             THEN /\ opt_pc' = "error"
                  /\ UNCHANGED databases
             ELSE /\ databases' = get_databases(n, second)
                  /\ opt_pc' = IF dry_run THEN "dry run" ELSE "init"
    /\ UNCHANGED <<workload, results, workers, thread, totals, work>>
    /\ UNCHANGED luksvars

\* Optimizer.init, lines 82-101.
Optimizer_init ==
    /\ opt_pc = "init"
    /\ workload' = databases
    /\ workers' = create_workers(workers, Len(databases))
    /\ thread' = [w \in 1..Len(workers') |-> NewThread]
    /\ work' = [e \in 1..Len(databases) |-> NewEntry(databases[e])]
    /\ opt_pc' = "run"
    /\ UNCHANGED <<databases, results, totals>>
    /\ UNCHANGED luksvars

\* Optimizer.run, lines 112-113: start the next worker of the list.
run_start ==
    /\ opt_pc = "run"
    /\ LET w == CHOOSE v \in 1..Len(workers) :
                    /\ thread[v].pc = "created"
                    /\ \A u \in 1..(v - 1) : thread[u].pc # "created"
       IN  /\ thread' = [thread EXCEPT ![w].pc = "connect"]
           /\ opt_pc' = IF w = Len(workers) THEN "join" ELSE "run"
    /\ UNCHANGED <<databases, workload, results, workers, totals, work>>
    /\ UNCHANGED luksvars

\* Optimizer.run, lines 114-115: join returns for a thread that has ended,
\* by returning or by an exception; run returns after the last join.
run_join ==
    /\ opt_pc = "join"
    /\ \A w \in 1..Len(workers) : Finished(w)
    /\ opt_pc' = "get_results"
    /\ UNCHANGED <<databases, workload, results, workers, thread, totals, work>>
    /\ UNCHANGED luksvars

\* _worker, lines 61-63: the thread's own connection; mysql.Error ends the
\* thread.
worker_connect(w) ==
    /\ thread[w].pc = "connect"
    /\ \E connected \in BOOLEAN :
          thread' = [thread EXCEPT ![w].pc = IF connected THEN "check" ELSE "raised"]
    /\ UNCHANGED <<databases, workload, results, workers, opt_pc, totals, work>>
    /\ UNCHANGED luksvars

\* _worker, line 64: the loop condition looks at the queue without taking.
worker_check(w) ==
    /\ thread[w].pc = "check"
    /\ thread' = [thread EXCEPT ![w].pc = IF workload # <<>> THEN "get" ELSE "put"]
    /\ UNCHANGED <<databases, workload, results, workers, opt_pc, totals, work>>
    /\ UNCHANGED luksvars

\* _worker, line 65: Queue.get waits while the queue is empty.
worker_get(w) ==
    /\ thread[w].pc = "get"
    /\ workload # <<>>
    /\ LET e == Len(databases) - Len(workload) + 1
       IN  /\ thread' = [thread EXCEPT ![w].pc = "optimize",
                                       ![w].db = Head(workload),
                                       ![w].entry = e]
           /\ work' = [work EXCEPT ![e].by = @ \cup {w}]
    /\ workload' = Tail(workload)
    /\ UNCHANGED <<databases, results, workers, opt_pc, totals>>
    /\ UNCHANGED luksvars

\* _worker, lines 66-75: the statements on the database taken, then
\* task_done; mysql.Error ends the thread.
worker_optimize(w) ==
    /\ thread[w].pc = "optimize"
    /\ \/ \E r \in TableResults :
             /\ thread' = [thread EXCEPT ![w].pc = "check",
                                         ![w].successes = @ + r.sc,
                                         ![w].failures = @ + r.fl]
             /\ work' = [work EXCEPT ![thread[w].entry].optimized = @ + 1,
                                     ![thread[w].entry].sc = @ + r.sc,
                                     ![thread[w].entry].fl = @ + r.fl]
       \/ /\ thread' = [thread EXCEPT ![w].pc = "raised"]
          /\ UNCHANGED work
    /\ UNCHANGED <<databases, workload, results, workers, opt_pc, totals>>
    /\ UNCHANGED luksvars

\* _worker, lines 76-79: the one record of the thread.
worker_put(w) ==
    /\ thread[w].pc = "put"
    /\ results' = put(results, [sc |-> thread[w].successes,
                                fl |-> thread[w].failures])
    /\ thread' = [thread EXCEPT ![w].pc = "done", ![w].put = @ + 1]
    /\ UNCHANGED <<databases, workload, workers, opt_pc, totals, work>>
    /\ UNCHANGED luksvars

\* Optimizer.get_results, lines 118-135, called at line 190.
get_results ==
    /\ opt_pc = "get_results"
    /\ totals' = sum_results(results)
    /\ results' = <<>>
    /\ opt_pc' = "returned"
    /\ UNCHANGED <<databases, workload, workers, thread, work>>
    /\ UNCHANGED luksvars

OptNext ==
    \/ optimizer_main
    \/ Optimizer_init
    \/ run_start
    \/ run_join
    \/ \E w \in 1..Len(workers) : worker_connect(w)
    \/ \E w \in 1..Len(workers) : worker_check(w)
    \/ \E w \in 1..Len(workers) : worker_get(w)
    \/ \E w \in 1..Len(workers) : worker_optimize(w)
    \/ \E w \in 1..Len(workers) : worker_put(w)
    \/ get_results

OptSpec == OptInit /\ [][OptNext]_vars

\* ======================================================================
\* Properties
\* ======================================================================
Entered(m) == \E i \in 1..Len(steps) : steps[i] = m

LastEntered == IF steps = <<>> THEN "" ELSE steps[Len(steps)]

\* Subprocesses that write to the target device or to what is mounted from it.
MutatingTools == {S("umount"), S("mkfs.ext4"), S("mount")}
MutatingSubcommands == {S("luksFormat"), S("luksOpen"), S("luksAddKey")}
Mutating(c) ==
    \/ c.argv[1] \in MutatingTools
    \/ c.argv[1] = S("cryptsetup") /\ c.argv[2] \in MutatingSubcommands

NoMutatingCall == \A i \in 1..Len(calls) : ~Mutating(calls[i])

IsFormat(c) == c.argv[1] = S("cryptsetup") /\ c.argv[2] = S("luksFormat")

FormatInvoked == \E i \in 1..Len(calls) : IsFormat(calls[i])

FormatSucceeded == \E i \in 1..Len(calls) : IsFormat(calls[i]) /\ calls[i].rc = 0

\* ------------------------------------------------------------------- C1
\* The character class [A-Za-z0-9_] on the characters labels are drawn from.
InAsciiClass(c) == c \in {"a", "_"}

HasCharOutsideAsciiClass(label) == \E i \in 1..Len(label) : ~InAsciiClass(label[i])

\* C1: once label validation has run on a label that contains a character
\* outside [A-Za-z0-9_], the process has exited non-zero (InvalidLabelSyntax)
\* and label validation is the only step that ran.
C1_InvalidLabelStopsRun ==
    (Entered("_validate_label_safety") /\ HasCharOutsideAsciiClass(args_label))
    => /\ pc = "exit"
       /\ exitCode # 0
       /\ diag = "InvalidLabelSyntax"
       /\ steps = <<"_validate_label_safety">>
       /\ calls = <<>>

\* ------------------------------------------------------------------- C2
\* C2: while the label index reports the label on a device (and this run has
\* not itself created that filesystem: only create_filesystem adds a label),
\* no subprocess that could mutate the target device has been invoked, and if
\* the process has ended it ended non-zero.
C2_LabelCollisionBeforeMutation ==
    (args_label \in sys.fsLabels /\ ~Entered("create_filesystem"))
    => /\ NoMutatingCall
       /\ pc = "exit" => exitCode # 0
       /\ Entered("_validate_label_safety") /\ LabelSyntaxOk(args_label)
          => pc = "exit" /\ diag = "LabelCollision"

\* A run rejected because blkid reported the label.
C2_Witness ==
    /\ args_label \in sys.fsLabels
    /\ pc = "exit"
    /\ diag = "LabelCollision"
    /\ exitCode = 1
    /\ \E i \in 1..Len(calls) : calls[i].argv[1] = S("blkid") /\ calls[i].rc = 0

\* ------------------------------------------------------------------- C3
\* The device argument, symbolic links resolved, is the same file as a
\* protected path that exists.
AliasesProtectedPath ==
    \E crit \in {BOOT, ROOTHOME, SCRIPT} :
       /\ exists(resolve(crit))
       /\ resolve(args_device) = resolve(crit)

\* C3: once device validation has run on a device that aliases a protected
\* path, the process has exited with ProtectedPathAlias (no other failure
\* kind) and the device was not formatted.
C3_ProtectedAliasDiagnosed ==
    (Entered("_validate_device_safety") /\ AliasesProtectedPath)
    => /\ pc = "exit"
       /\ exitCode # 0
       /\ diag = "ProtectedPathAlias"
       /\ ~FormatInvoked

\* ------------------------------------------------------------------- C4
IsProbe(c) == c.argv[1] = S("cryptsetup") /\ c.argv[2] = S("isLuks")

ProbeMade == \E i \in 1..Len(calls) : IsProbe(calls[i])

\* C4: a device that carries a LUKS header which this run did not write is
\* never handed to luksFormat, and once device validation has probed it the
\* process has exited non-zero with AlreadyEncrypted.
C4_AlreadyEncryptedNeverFormatted ==
    (sys.isLuks /\ ~FormatSucceeded)
    => /\ ~FormatInvoked
       /\ ProbeMade => /\ pc = "exit"
                       /\ exitCode # 0
                       /\ diag = "AlreadyEncrypted"

\* The probe found a LUKS header and the run ended there.
C4_Witness ==
    /\ sys.isLuks
    /\ ProbeMade
    /\ pc = "exit"
    /\ diag = "AlreadyEncrypted"
    /\ LastEntered = "_validate_device_safety"

\* ------------------------------------------------------------------- C5
\* C5 as stated: after the gate, an input other than the exact literal YES
\* has ended the process with status 0 and nothing destructive was invoked.
C5_ExactLiteralOnly ==
    (Entered("confirm_destruction") /\ typed # YES)
    => /\ pc = "exit"
       /\ exitCode = 0
       /\ NoMutatingCall

\* C5 amended: after the gate, an input that differs from YES once leading
\* and trailing whitespace is removed has ended the process with status 0
\* (operator abort) at the gate, and nothing destructive was invoked.
C5_DeclineExitsZero ==
    (Entered("confirm_destruction") /\ strip(typed) # YES)
    => /\ pc = "exit"
       /\ exitCode = 0
       /\ diag = "OperatorAbort"
       /\ LastEntered = "confirm_destruction"
       /\ NoMutatingCall
       /\ ~FormatInvoked

\* The operator answered in lower case and the run ended with status 0.
C5_Witness ==
    /\ Entered("confirm_destruction")
    /\ typed = <<"y", "e", "s">>
    /\ pc = "exit"
    /\ exitCode = 0

\* ------------------------------------------------------------------- C6
\* The order the claim gives, in the methods' names (Validate is the label
\* check followed by the device check).
ClaimedOrder ==
    <<"_validate_label_safety", "_validate_device_safety",
      "generate_passphrase", "confirm_destruction",
      "format_luks", "backup_luks_header", "open_container(use_keyfile=False)",
      "create_filesystem", "create_keyfile", "add_keyfile_to_luks",
      "open_container(use_keyfile=True)", "setup_mount_and_symlink",
      "add_fstab_entry", "create_systemd_service", "cleanup",
      "print_setup_summary">>

\* The order with the unmount step between the gate and the format.
OrderWithUnmount ==
    <<"_validate_label_safety", "_validate_device_safety",
      "generate_passphrase", "confirm_destruction", "unmount_drive",
      "format_luks", "backup_luks_header", "open_container(use_keyfile=False)",
      "create_filesystem", "create_keyfile", "add_keyfile_to_luks",
      "open_container(use_keyfile=True)", "setup_mount_and_symlink",
      "add_fstab_entry", "create_systemd_service", "cleanup",
      "print_setup_summary">>

\* A step that is in the claimed list, or that changed state by a subprocess
\* that mutates (unmount_drive once it has unmounted something).
ClaimedOrStateChanging(m) ==
    \/ m \in Range(ClaimedOrder)
    \/ \E i \in 1..Len(calls) : calls[i].by = m /\ Mutating(calls[i])

\* C6 as stated: the steps run are an initial piece of the claimed order, with
\* no other state-changing step among them.
C6_ClaimedOrder ==
    IsPrefix(SelectSeq(steps, ClaimedOrStateChanging), ClaimedOrder)

\* The place of a step in that order; 0 for the dependency recovery, which
\* comes before all of them.
PositionInOrder ==
    [m \in Range(OrderWithUnmount) |->
       CHOOSE i \in 1..Len(OrderWithUnmount) : OrderWithUnmount[i] = m]

PositionOf(m) ==
    IF m = "handle_missing_xkcdpass" THEN 0 ELSE PositionInOrder[m]

BeforeTheObject == {"main", "handle_missing_xkcdpass", "getuid"}

\* C6 amended: the steps run are an initial piece of the order with
\* unmount_drive between confirm_destruction and format_luks (so each runs at
\* most once and only after all earlier ones returned); while the process
\* runs, control is at the next step of that order; every subprocess is
\* invoked by a step of the order (or by the dependency recovery before
\* them) and in the order of its step; a run that ended with status 0 ran
\* them all or stopped at the gate.
C6_FixedOrder ==
    /\ IsPrefix(steps, OrderWithUnmount)
    /\ pc \notin (BeforeTheObject \cup {"exit"})
          => /\ Len(steps) < Len(OrderWithUnmount)
             /\ pc = OrderWithUnmount[Len(steps) + 1]
    /\ \A i \in 1..Len(calls) :
          /\ PositionOf(calls[i].by) <= Len(steps)
          /\ i > 1 => PositionOf(calls[i - 1].by) <= PositionOf(calls[i].by)
    /\ (pc = "exit" /\ exitCode = 0)
          => steps = OrderWithUnmount \/ diag = "OperatorAbort"

\* A complete run in which unmount_drive unmounted a mount point.
C6_Witness ==
    /\ pc = "exit"
    /\ exitCode = 0
    /\ steps = OrderWithUnmount
    /\ \E i \in 1..Len(calls) :
          calls[i].by = "unmount_drive" /\ calls[i].argv[1] = S("umount")

\* ------------------------------------------------------------------- C7
FormatThroughClose ==
    {"format_luks", "backup_luks_header", "open_container(use_keyfile=False)",
     "create_filesystem", "create_keyfile", "add_keyfile_to_luks",
     "open_container(use_keyfile=True)", "setup_mount_and_symlink",
     "add_fstab_entry", "create_systemd_service", "cleanup"}

\* C7: a subprocess of a step from format_luks through cleanup that exited
\* non-zero is the last subprocess invoked, its step is the last step
\* entered, and the process has ended with a non-zero status (so
\* print_setup_summary and every other later step did not run).
C7_AbortOnFirstFailure ==
    \A i \in 1..Len(calls) :
       (calls[i].by \in FormatThroughClose /\ calls[i].rc # 0)
       => /\ i = Len(calls)
          /\ LastEntered = calls[i].by
          /\ pc = "exit"
          /\ exitCode # 0
          /\ ~Entered("print_setup_summary")

\* The last subprocess of the pipeline (luksClose in cleanup) failed.
C7_Witness ==
    /\ pc = "exit"
    /\ exitCode = 1
    /\ LastEntered = "cleanup"
    /\ Len(calls) > 0
    /\ calls[Len(calls)].argv[2] = S("luksClose")
    /\ calls[Len(calls)].rc # 0

\* ------------------------------------------------------------------- C8
PipInstalls == {i \in 1..Len(calls) : calls[i].by = "handle_missing_xkcdpass"}

\* C8: along the chain of re-executions the install is attempted at most
\* once and the process image is replaced at most once; the replaced image
\* carries --no-reinstall; with the flag and the module still missing the
\* process can only end, non-zero, without another install or exec.
C8_RecoveryOnce ==
    /\ Cardinality(PipInstalls) <= 1
    /\ installs <= 1
    /\ execs <= 1
    /\ execs >= 1 => args_no_reinstall
    /\ (args_no_reinstall /\ ~xpw)
          => /\ pc \in {"main", "exit"}
             /\ pc = "exit" => /\ exitCode # 0
                               /\ diag = "StillNotImportable"
                               /\ steps = <<>>

\* After one install and re-execution the module was still missing, and the
\* process ended.
C8_Witness ==
    /\ execs = 1
    /\ installs = 1
    /\ ~xpw
    /\ pc = "exit"
    /\ diag = "StillNotImportable"

\* ------------------------------------------------------------------- C9
ShowsPassphrase(line) == Contains(line.text, luks.pass_phrase)

LinesShowingPassphrase(by) ==
    {i \in 1..Len(log) : log[i].by = by /\ ShowsPassphrase(log[i])}

IsOpen(c) == c.argv[1] = S("cryptsetup") /\ c.argv[2] = S("luksOpen")

IsAddKey(c) == c.argv[1] = S("cryptsetup") /\ c.argv[2] = S("luksAddKey")

InArgs(c, secret) == \E k \in 1..Len(c.argv) : Contains(c.argv[k], secret)

KeyfileMode(c) == \E k \in 1..Len(c.argv) : c.argv[k] = S("--key-file")

\* C10: no command line shows the passphrase; luksFormat, luksOpen in
\* passphrase mode and luksAddKey get it on standard input, followed by a
\* newline; luksOpen in key-file mode gets no input and names the key file
\* by its path /etc/luks-keys/<label>.key, not by its content.
C10_PassphraseNotInArgs ==
    \A i \in 1..Len(calls) :
       LET c == calls[i] IN
       /\ ~InArgs(c, luks.pass_phrase)
       /\ (IsFormat(c) \/ IsAddKey(c) \/ (IsOpen(c) /\ ~KeyfileMode(c)))
             => c.stdin = luks.pass_phrase \o S("\n")
       /\ (IsOpen(c) /\ KeyfileMode(c))
             => /\ c.by = "open_container(use_keyfile=True)"
                /\ c.stdin = <<>>
                /\ c.argv[Len(c.argv)] = S("/etc/luks-keys/") \o args_label \o S(".key")
                /\ ~InArgs(c, sys.keyfile.content)
       /\ (IsOpen(c) /\ c.by = "open_container(use_keyfile=True)") => KeyfileMode(c)

\* All four commands were invoked: format, both opens and the added key.
C10_Witness ==
    /\ \E i \in 1..Len(calls) : IsFormat(calls[i])
    /\ \E i \in 1..Len(calls) : IsAddKey(calls[i]) /\ calls[i].rc = 0
    /\ \E i \in 1..Len(calls) : IsOpen(calls[i]) /\ ~KeyfileMode(calls[i])
    /\ \E i \in 1..Len(calls) : IsOpen(calls[i]) /\ KeyfileMode(calls[i]) /\ calls[i].rc = 0

\* ------------------------------------------------------------------ C11
OpenSteps == {"open_container(use_keyfile=False)", "open_container(use_keyfile=True)"}

IsClose(c) == c.argv[1] = S("cryptsetup") /\ c.argv[2] = S("luksClose")

\* The subprocesses the step being taken invokes.
NewCalls == SubSeq(calls', Len(calls) + 1, Len(calls'))

\* What a step of open_container does with an active mapping of its name.
ClosesBeforeReopening ==
    IF sys.mapper
    THEN /\ Len(NewCalls) >= 1
         /\ IsClose(NewCalls[1])
         /\ NewCalls[1].argv[3] = luks.crypt_name
         /\ IF NewCalls[1].rc # 0
            THEN /\ Len(NewCalls) = 1
                 /\ pc' = "exit"
                 /\ exitCode' # 0
                 /\ diag' = "CannotCleanUp"
                 /\ sys'.mapper = sys.mapper
            ELSE /\ Len(NewCalls) = 2
                 /\ IsOpen(NewCalls[2])
                 /\ sys'.mapper = (NewCalls[2].rc = 0)
    ELSE /\ Len(NewCalls) = 1
         /\ IsOpen(NewCalls[1])
         /\ sys'.mapper = (NewCalls[1].rc = 0)

\* C11: a step of open_container taken while the mapping <label>_crypt is
\* active first invokes luksClose on that name; when the close fails nothing
\* else is invoked, the mapping is left as it was and the process ends
\* non-zero (CannotCleanUp); when it succeeds luksOpen is invoked next, once,
\* and the mapping is active afterwards exactly when that luksOpen succeeded.
\* A step taken while no mapping is active invokes luksOpen alone.
C11_CloseBeforeReopen == [][(pc \in OpenSteps) => ClosesBeforeReopening]_vars

\* The key-file open found the mapping of the passphrase open still active,
\* closed it and opened the container again.
C11_Witness ==
    \E i \in 1..(Len(calls) - 1) :
       /\ calls[i].by = "open_container(use_keyfile=True)"
       /\ IsClose(calls[i])
       /\ calls[i].rc = 0
       /\ IsOpen(calls[i + 1])
       /\ calls[i + 1].rc = 0
       /\ sys.mapper

\* ------------------------------------------------------------------ C12
LinkToMountPoint == [kind |-> "symlink", target |-> S("/mnt/") \o args_label]

StoppedIn(m) == pc = "exit" /\ LastEntered = m

\* C12: once setup_mount_and_symlink has looked at <home>/<label> (its mount
\* succeeded): a symbolic link found there has been replaced by a symbolic
\* link to /mnt/<label>, and nothing found there has become one, and the run
\* went on; a regular file or a directory found there is still there exactly
\* as it was, and the process ended in that step with a non-zero status.
C12_SymlinkReplacedFileKept ==
    sys.link_found # NotLookedAt
    => /\ Entered("setup_mount_and_symlink")
       /\ sys.mounted \/ Entered("cleanup")
       /\ sys.link_found.kind \in {"symlink", "absent"}
             => /\ sys.symlink = LinkToMountPoint
                /\ ~StoppedIn("setup_mount_and_symlink")
       /\ sys.link_found.kind = "symlink" => sys.link_found # sys.symlink
       /\ sys.link_found.kind \in {"file", "dir"}
             => /\ sys.symlink = sys.link_found
                /\ StoppedIn("setup_mount_and_symlink")
                /\ exitCode # 0
                /\ diag = "SymlinkPathNotSymlink"

\* The mount succeeded and a directory at the path of the link stopped the run.
C12_Witness ==
    /\ LastEntered = "setup_mount_and_symlink"
    /\ pc = "exit"
    /\ diag = "SymlinkPathNotSymlink"
    /\ sys.link_found.kind = "dir"
    /\ sys.symlink.kind = "dir"
    /\ sys.mounted

\* ------------------------------------------------------------------ C13
\* cryptsetup actions that remove or replace a key slot, or write a new header.
SlotRemovingSubcommands ==
    {S("luksRemoveKey"), S("luksKillSlot"), S("luksChangeKey"), S("erase")}

CallsOf(P(_)) == {i \in 1..Len(calls) : P(calls[i])}

StepIndex(m) == CHOOSE i \in 1..Len(steps) : steps[i] = m

\* C13: from the successful luksFormat on, the passphrase is in a key slot of
\* the container (so it is when add_keyfile_to_luks is entered and when it
\* completes): the run formats at most once and invokes no cryptsetup action
\* that removes or replaces a slot; a successful luksAddKey was given the
\* passphrase that is in the slot.  The key-file open is entered only after
\* create_keyfile has written the key file and luksAddKey has succeeded, in
\* that order.
C13_PassphraseSlotKeptUntilKeyAdded ==
    /\ FormatSucceeded => luks.pass_phrase \in sys.slots
    /\ Cardinality(CallsOf(IsFormat)) <= 1
    /\ \A i \in 1..Len(calls) :
          calls[i].argv[1] = S("cryptsetup")
          => calls[i].argv[2] \notin SlotRemovingSubcommands
    /\ \A i \in 1..Len(calls) :
          (IsAddKey(calls[i]) /\ calls[i].rc = 0)
          => /\ calls[i].stdin = luks.pass_phrase \o S("\n")
             /\ \E j \in 1..(i - 1) : IsFormat(calls[j]) /\ calls[j].rc = 0
    /\ Entered("add_keyfile_to_luks")
          => FormatSucceeded /\ luks.pass_phrase \in sys.slots
    /\ Entered("open_container(use_keyfile=True)")
          => /\ Entered("create_keyfile")
             /\ Entered("add_keyfile_to_luks")
             /\ StepIndex("create_keyfile") < StepIndex("add_keyfile_to_luks")
             /\ StepIndex("add_keyfile_to_luks")
                   < StepIndex("open_container(use_keyfile=True)")
             /\ sys.keyfile.present
             /\ \E i \in 1..Len(calls) : IsAddKey(calls[i]) /\ calls[i].rc = 0
             /\ sys.keyfile.content \in sys.slots

\* The key-file open was entered, with both the passphrase and the key file
\* in their slots.
C13_Witness ==
    /\ Entered("open_container(use_keyfile=True)")
    /\ luks.pass_phrase \in sys.slots
    /\ sys.keyfile.content \in sys.slots
    /\ Cardinality(sys.slots) = 2

\* ------------------------------------------------------------------ C15
MountTableLines == LinesOf(sys.fstab.content, <<>>)

MountTableLinesBefore == LinesOf(sys.fstab.before, <<>>)

\* C15: once add_fstab_entry has written, the mount table has the lines it
\* had before, unchanged, followed by exactly one more line; that line names
\* /mnt/<label>, refers to the device by UUID= (not by /dev/mapper/...) and
\* carries noauto.
C15_OneLineAppended ==
    sys.fstab.opened
    => /\ Len(MountTableLines) = Len(MountTableLinesBefore) + 1
       /\ SubSeq(MountTableLines, 1, Len(MountTableLinesBefore)) = MountTableLinesBefore
       /\ LET line == MountTableLines[Len(MountTableLines)] IN
          /\ Contains(line, S("/mnt/") \o args_label)
          /\ IsPrefix(S("UUID=") \o INNER_UUID, line)
          /\ ~Contains(line, S("/dev/mapper/"))
          /\ Contains(line, S("   ext4   defaults,noauto   0   2"))

\* ------------------------------------------------------------------ C16
\* C16: once create_keyfile has run (it cannot fail part-way in a way the
\* run survives), and so at the end of every successful run, /etc/luks-keys
\* holds exactly one key file of this run, /etc/luks-keys/<label>.key, the
\* object's key_file names it, and it holds 512 bytes, has mode 0600 and
\* belongs to root; before that the run has written no key file.
C16_OneKeyfile ==
    /\ Entered("create_keyfile")
          => /\ pc # "create_keyfile"
             /\ sys.luks_keys = {S("/etc/luks-keys/") \o args_label \o S(".key")}
             /\ luks.key_file = S("/etc/luks-keys/") \o args_label \o S(".key")
             /\ sys.keyfile.present
             /\ sys.keyfile.size = 512
             /\ sys.keyfile.mode = "0600"
             /\ sys.keyfile.owner = S("root")
    /\ ~Entered("create_keyfile") => sys.luks_keys = {} /\ ~sys.keyfile.present
    /\ (pc = "exit" /\ exitCode = 0 /\ diag # "OperatorAbort") => Entered("create_keyfile")

\* A successful run ended with the key file in place.
C16_Witness ==
    /\ pc = "exit"
    /\ exitCode = 0
    /\ Entered("print_setup_summary")
    /\ sys.keyfile.size = 512
    /\ sys.keyfile.mode = "0600"
    /\ Cardinality(sys.luks_keys) = 1

\* ------------------------------------------------------------------ C17
UnitName == args_label \o S("-crypt.service")

\* C17: a run that ended successfully (not declined at the gate) has written
\* the unit <label>-crypt.service and enabled it, and it is the one unit the
\* run enabled; whenever a unit is enabled, the unit file of that name has
\* been written and the service manager reloaded, and every systemctl enable
\* invoked follows a daemon-reload that succeeded.
C17_UnitEnabledAfterReload ==
    /\ (pc = "exit" /\ exitCode = 0 /\ diag # "OperatorAbort")
          => /\ sys.unit.present
             /\ sys.unit.name = UnitName
             /\ sys.enabled = {UnitName}
    /\ sys.enabled \subseteq {UnitName}
    /\ sys.enabled # {}
          => /\ sys.unit.present
             /\ sys.unit.name = UnitName
             /\ sys.unit.ExecStart # <<>>
             /\ sys.reloaded
    /\ \A i \in 1..Len(calls) :
          IsEnable(calls[i])
          => /\ calls[i].argv[3] = UnitName
             /\ i > 1
             /\ IsReload(calls[i - 1])
             /\ calls[i - 1].rc = 0
             /\ calls[i - 1].by = "create_systemd_service"
    /\ Cardinality(CallsOf(IsEnable)) <= 1

\* A successful run ended with the unit written, reloaded and enabled.
C17_Witness ==
    /\ pc = "exit"
    /\ exitCode = 0
    /\ Entered("print_setup_summary")
    /\ sys.enabled = {UnitName}
    /\ sys.reloaded
    /\ sys.unit.present

\* ------------------------------------------------------------------ C20
\* C20: a step of _validate_label_safety taken while /mnt/<label> exists, or
\* while the unit file <label>-crypt.service exists, ends the process with a
\* non-zero status in that step, and the only subprocess it may have invoked
\* is the blkid query: nothing destructive.
C20_RefusesExistingMountPointOrUnit ==
    [][(pc = "_validate_label_safety" /\ (sys.mount_point \/ sys.unit.present))
        => /\ pc' = "exit"
           /\ exitCode' # 0
           /\ steps' = <<"_validate_label_safety">>
           /\ sys' = sys
           /\ \A i \in 1..Len(calls') : calls'[i].argv[1] \in {S("python3"), S("blkid")}
           /\ LabelSyntaxOk(luks.label) /\ luks.label \notin sys.fsLabels
                 => diag' = IF sys.mount_point THEN "MountPointExists" ELSE "ServiceExists"
    ]_vars

\* The run ended in label validation because the unit file existed.
C20_Witness ==
    /\ pc = "exit"
    /\ diag = "ServiceExists"
    /\ sys.unit.present
    /\ ~sys.mount_point
    /\ exitCode = 1
    /\ calls # <<>>

\* ------------------------------------------------------------------ C18
Started == sys.last_start.status # -1

\* C18: the unit's start action attempts the unlock only with the disk
\* attached (it waits for the disk first), so a start that found the disk
\* missing has not run luksOpen.
C18_StartWaitsForDevice ==
    Started
    => \A i \in 1..Len(sys.last_start.ran) :
          IsOpen(sys.last_start.ran[i]) => sys.last_start.attached

\* ------------------------------------------------------------------ C19
Stopped == sys.last_stop.status # -1

\* C19: a stop of the unit has run umount /mnt/<label> and then cryptsetup
\* luksClose <label>_crypt, both, in that order, whatever status the umount
\* returned and whether or not the filesystem was still mounted and the
\* mapping still active, and the stop action ended with status 0.
C19_StopToleratesAbsence ==
    Stopped
    => /\ Len(sys.last_stop.ran) = 2
       /\ sys.last_stop.ran[1].argv = <<S("umount"), S("/mnt/") \o args_label>>
       /\ sys.last_stop.ran[2].argv
             = <<S("cryptsetup"), S("luksClose"), args_label \o S("_crypt")>>
       /\ sys.last_stop.status = 0
       /\ sys.service = "inactive"
       /\ ~sys.last_stop.mounted => sys.last_stop.ran[1].rc # 0
       /\ ~sys.last_stop.mapper => sys.last_stop.ran[2].rc # 0

\* A stop that found neither the mount nor the mapping: both commands ran
\* and failed, and the stop succeeded.
C19_Witness ==
    /\ Stopped
    /\ ~sys.last_stop.mounted
    /\ ~sys.last_stop.mapper
    /\ sys.last_stop.ran[1].rc # 0
    /\ sys.last_stop.ran[2].rc # 0
    /\ sys.last_stop.status = 0

\* ------------------------------------------------------------------ C21
\* C21: when print_setup_summary is about to execute, and from then on until
\* the installed unit is started, the filesystem is not mounted at
\* /mnt/<label> and no mapping <label>_crypt is active; cleanup has run
\* umount /mnt/<label> and then cryptsetup luksClose <label>_crypt, both with
\* status 0, as the last two subprocesses of the run.
C21_ReleasedBeforeSummary ==
    ((pc = "print_setup_summary" \/ Entered("print_setup_summary")) /\ ~Started)
    => /\ ~sys.mounted
       /\ ~sys.mapper
       /\ Entered("cleanup")
       /\ Len(calls) >= 2
       /\ calls[Len(calls) - 1]
             = Call("cleanup", <<S("umount"), S("/mnt/") \o args_label>>, <<>>, 0)
       /\ calls[Len(calls)]
             = Call("cleanup", <<S("cryptsetup"), S("luksClose"),
                                 args_label \o S("_crypt")>>, <<>>, 0)

\* The summary has been printed at the end of a run that had mounted the
\* filesystem and opened the mapping with the key file.
C21_Witness ==
    /\ pc = "exit"
    /\ exitCode = 0
    /\ LastEntered = "print_setup_summary"
    /\ \E i \in 1..Len(calls) : calls[i].argv[1] = S("mount") /\ calls[i].rc = 0
    /\ ~sys.mounted
    /\ ~sys.mapper

\* ------------------------------------------------------------------ C22
\* The process has ended with a non-zero status.
Failed == pc = "exit" /\ exitCode # 0

\* Step m was entered and returned: a later step was entered after it.
StepDone(m) == Entered(m) /\ LastEntered # m

SucceededBy(m, P(_)) ==
    \E i \in 1..Len(calls) : calls[i].by = m /\ P(calls[i]) /\ calls[i].rc = 0

\* What each step that returned has created, the mapping and the mount aside.
LastingArtifactsKept ==
    /\ StepDone("format_luks") => sys.isLuks /\ luks.pass_phrase \in sys.slots
    /\ StepDone("backup_luks_header") => sys.backup.present
    /\ StepDone("create_filesystem") => sys.mapped_fs /\ args_label \in sys.fsLabels
    /\ StepDone("create_keyfile")
          => sys.keyfile.present /\ sys.keyfile.content = KeyMaterial
    /\ StepDone("add_keyfile_to_luks") => sys.keyfile.content \in sys.slots
    /\ StepDone("setup_mount_and_symlink")
          => sys.mount_point /\ sys.symlink = LinkToMountPoint
    /\ StepDone("add_fstab_entry")
          => Contains(sys.fstab.content, S("/mnt/") \o args_label)
    /\ StepDone("create_systemd_service")
          => sys.unit.present /\ sys.unit.name = UnitName /\ UnitName \in sys.enabled

\* C22 as stated: in a terminal failure state everything the steps that
\* returned have created is still present, the open mapping and the mount
\* included.
C22_AllArtifactsKept ==
    Failed
    => /\ LastingArtifactsKept
       /\ StepDone("open_container(use_keyfile=False)") => sys.mapper
       /\ StepDone("setup_mount_and_symlink") => sys.mounted

\* C22 amended: in a terminal failure state the last subprocess invoked is
\* the one whose failure ended the run (nothing is invoked to undo anything),
\* and everything the steps that returned have created is still present,
\* except what the failing step itself released before it failed: the mapping
\* is gone exactly when the key-file open closed it and could not open it
\* again, and the mount is gone exactly when cleanup unmounted it and could
\* not close the mapping.
C22_NoCompensation ==
    Failed
    => /\ LastingArtifactsKept
       /\ diag \in {"CalledProcessError", "CannotCleanUp", "MountStatusUnverified"}
             => /\ calls # <<>>
                /\ calls[Len(calls)].rc # 0
                /\ calls[Len(calls)].by = LastEntered
                /\ \A i \in 1..(Len(calls) - 1) :
                      calls[i].by \in FormatThroughClose => calls[i].rc = 0
       /\ StepDone("open_container(use_keyfile=False)")
             => (sys.mapper <=>
                   ~(/\ LastEntered = "open_container(use_keyfile=True)"
                     /\ SucceededBy(LastEntered, IsClose)))
       /\ StepDone("setup_mount_and_symlink")
             => (sys.mounted <=>
                   ~(LastEntered = "cleanup" /\ SucceededBy("cleanup", IsUmount)))

\* The key-file open closed the mapping of the passphrase open and failed to
\* open the container again: the run ended with the container formatted, the
\* filesystem made and the key file written, and with no mapping.
C22_Witness ==
    /\ Failed
    /\ LastEntered = "open_container(use_keyfile=True)"
    /\ SucceededBy(LastEntered, IsClose)
    /\ ~sys.mapper
    /\ sys.isLuks
    /\ sys.mapped_fs
    /\ sys.keyfile.present

\* ------------------------------------------------------------------ C23
IsHeaderBackup(c) == c.argv[1] = S("cryptsetup") /\ c.argv[2] = S("luksHeaderBackup")

\* The account that invoked the program: the one that called sudo, or root
\* itself when root runs the program directly; and its home directory.
InvokingUser == IF sys.SUDO_USER # <<>> THEN sys.SUDO_USER ELSE S("root")

InvokingUserHome ==
    IF sys.SUDO_USER # <<>> THEN S("/home/") \o sys.SUDO_USER ELSE S("/root")

\* The header backup is taken once, after the successful luksFormat and
\* before any luksOpen, and a run that reaches the first open has taken it.
BackupOnceAfterFormat ==
    /\ Cardinality({i \in 1..Len(steps) : steps[i] = "backup_luks_header"}) <= 1
    /\ Cardinality(CallsOf(IsHeaderBackup)) <= 1
    /\ \A i \in 1..Len(calls) :
          IsHeaderBackup(calls[i])
          => /\ i > 1
             /\ IsFormat(calls[i - 1])
             /\ calls[i - 1].rc = 0
             /\ \A j \in 1..i : ~IsOpen(calls[j])
    /\ (\E i \in 1..Len(calls) : IsOpen(calls[i]))
          => \E i \in 1..Len(calls) : IsHeaderBackup(calls[i]) /\ calls[i].rc = 0

\* Where the backup is and who may read it.
BackupPlacedAndRestricted ==
    sys.backup.present
    => /\ luks.backup_path
             = InvokingUserHome \o S("/backups/") \o args_label
                  \o S("-luks-header-") \o DATE \o S(".bak")
       /\ calls[Len(calls)].by = "backup_luks_header"
             => calls[Len(calls)].argv[5] = luks.backup_path
       /\ sys.backup.mode = "0600"
       /\ sys.backup.owner = InvokingUser

\* C23 as stated: the backup is taken once, between the format and the first
\* open, lies under the invoking user's home directory, is owner-only, and
\* its owner is the invoking user, an account without privileges.
C23_BackupOwnedByUnprivilegedUser ==
    /\ BackupOnceAfterFormat
    /\ BackupPlacedAndRestricted
    /\ sys.backup.present => sys.backup.owner # S("root")

\* C23 amended: the same, the owner being the invoking user whoever that is:
\* the account that called sudo, or root when root ran the program directly
\* (the backup then lies under /root and belongs to root).
C23_BackupOnceOwnedByInvoker ==
    /\ BackupOnceAfterFormat
    /\ BackupPlacedAndRestricted
    /\ (sys.backup.present /\ sys.SUDO_USER = <<>>)
          => /\ sys.backup.owner = S("root")
             /\ IsPrefix(S("/root"), luks.backup_path)

\* The program was run through sudo and the backup belongs to the account
\* that called it.
C23_Witness ==
    /\ sys.backup.present
    /\ sys.SUDO_USER = S("operator")
    /\ sys.backup.owner = S("operator")
    /\ sys.backup.mode = "0600"
    /\ IsPrefix(S("/home/") \o S("operator") \o S("/backups/"), luks.backup_path)
    /\ Entered("open_container(use_keyfile=False)")

\* ------------------------------------------------------------------ C27
IsLsblk(c) == c.argv[1] = S("lsblk")

FormatCallIndex == CHOOSE i \in 1..Len(calls) : IsFormat(calls[i])

\* C27: once luksFormat has been invoked, unmount_drive has returned: its
\* lsblk query on the device succeeded, every mount point the query reported
\* was unmounted (umount -l, status 0) before the format, and none of them
\* is still mounted; a query or an unmount that failed ended the run in
\* unmount_drive with a non-zero status and luksFormat was never invoked.
C27_FormatAfterUnmount ==
    /\ FormatInvoked
          => /\ StepDone("unmount_drive")
             /\ \E i \in 1..(FormatCallIndex - 1) :
                   /\ IsLsblk(calls[i])
                   /\ calls[i].rc = 0
                   /\ calls[i].argv[Len(calls[i].argv)] = resolve(args_device)
             /\ \A k \in sys.reported :
                   \E i \in 1..(FormatCallIndex - 1) :
                      calls[i] = Call("unmount_drive",
                                      <<S("umount"), S("-l"), MountPointOf(k)>>, <<>>, 0)
             /\ sys.devMounts = {}
    /\ \A i \in 1..Len(calls) :
          (calls[i].by = "unmount_drive" /\ calls[i].rc # 0)
          => /\ Failed
             /\ LastEntered = "unmount_drive"
             /\ i = Len(calls)
             /\ ~FormatInvoked

\* The device had a mount point, it was unmounted, and the format followed.
C27_Witness ==
    /\ FormatInvoked
    /\ sys.reported # {}
    /\ sys.devMounts = {}
    /\ \E i \in 1..Len(calls) : IsUmount(calls[i]) /\ calls[i].by = "unmount_drive"

\* ------------------------------------------------------------------ C29
\* C29: a key file that was at /etc/luks-keys/<label>.key when the run got to
\* create_keyfile (so the run did not end before that step) still has the
\* content it had.
C29_ExistingKeyfileKept ==
    sys.keyfile_before.present
    => sys.keyfile.content = sys.keyfile_before.content

\* ------------------------------------------------------------------ C30
OwnerOnly(f) == f.mode \in {"0600", "0400"}

\* C30: the key file, whenever it exists and holds key material, inside
\* create_keyfile (after write_bytes, after chmod, after chown) and in every
\* state after it, has owner-only permissions.
C30_KeyfileAlwaysOwnerOnly ==
    /\ (sys.keyfile.present /\ sys.keyfile.content # <<>>) => OwnerOnly(sys.keyfile)
    /\ \A i \in 1..Len(sys.keyfile_trace) :
          (sys.keyfile_trace[i].present /\ sys.keyfile_trace[i].content # <<>>)
          => OwnerOnly(sys.keyfile_trace[i])

\* ------------------------------------------------------------------ C28
\* The run in progress is a later run: the device was formatted, and not by
\* this run.
LaterRun == sys.formats >= 1 /\ ~FormatSucceeded

ValidationSteps == {"_validate_label_safety", "_validate_device_safety"}

ValidationDiags ==
    {"InvalidLabelSyntax", "LabelCollision", "MountPointExists", "ServiceExists",
     "NotABlockDevice", "ProtectedPathAlias", "AlreadyEncrypted"}

\* C28: over runs that follow one another the device is formatted at most
\* once; a run started after a run that formatted it invokes no luksFormat
\* and nothing else that mutates the device, enters no step beyond the two
\* validation steps, and when it has ended it has ended with a non-zero
\* status; run by root with the module importable, it was rejected by
\* validation.
C28_FormatAtMostOnce ==
    /\ sys.formats <= 1
    /\ LaterRun
          => /\ ~FormatInvoked
             /\ NoMutatingCall
             /\ Range(steps) \subseteq ValidationSteps
             /\ pc \in {"main", "handle_missing_xkcdpass", "getuid", "exit"}
                      \cup ValidationSteps
             /\ pc = "exit"
                   => /\ exitCode # 0
                      /\ (uid = 0 /\ xpw) => diag \in ValidationDiags

\* A later run passed the label check and was rejected by the LUKS probe.
C28_Witness ==
    /\ LaterRun
    /\ pc = "exit"
    /\ diag = "AlreadyEncrypted"
    /\ steps = <<"_validate_label_safety", "_validate_device_safety">>
    /\ sys.formats = 1

\* Nothing is put into the workload after init, so a worker that waits in
\* Queue.get on the empty workload waits for ever, and so does the join of it.
BlockedOnEmptyQueue(w) == thread[w].pc = "get" /\ workload = <<>>

\* C24: for any number of workers and any interleaving run() returns: once
\* the workload has been drained no worker stays blocked waiting on the
\* empty queue.
C24_NoWorkerBlockedOnEmptyQueue ==
    \A w \in 1..Len(workers) : ~BlockedOnEmptyQueue(w)

RunReturned == opt_pc \in {"get_results", "returned"}

DatabaseError == \E w \in 1..Len(workers) : thread[w].pc = "raised"

\* The workers that took an entry of the workload holding the name.
TakersOf(name) ==
    UNION {work[e].by : e \in {i \in 1..Len(work) : work[i].db = name}}

\* How often the tables of the database were optimized and counted.
TimesOptimized(name) ==
    LET RECURSIVE upto(_)
        upto(e) == IF e = 0 THEN 0
                   ELSE upto(e - 1) + (IF work[e].db = name
                                       THEN work[e].optimized ELSE 0)
    IN  upto(Len(work))

\* The sums over the records the workers put, one per worker.
SumOfWorkers ==
    LET RECURSIVE upto(_)
        upto(w) == IF w = 0 THEN [sc |-> 0, fl |-> 0]
                   ELSE [sc |-> upto(w - 1).sc + thread[w].successes,
                         fl |-> upto(w - 1).fl + thread[w].failures]
    IN  upto(Len(workers))

\* C25: when run() has returned without a database error, every database
\* name put into the workload was taken by exactly one worker and its tables
\* were optimized and counted exactly once, every worker has put exactly one
\* result record, and what get_results() returned is the sum of the
\* workers' records.
C25_EachNameOnceEachWorkerOneRecord ==
    (RunReturned /\ ~DatabaseError)
       => /\ \A e \in 1..Len(databases) :
                /\ Cardinality(TakersOf(databases[e])) = 1
                /\ TimesOptimized(databases[e]) = 1
          /\ \A w \in 1..Len(workers) : thread[w].put = 1
          /\ opt_pc = "get_results" => Len(results) = Len(workers)
          /\ opt_pc = "returned" => totals = SumOfWorkers

InitDone == opt_pc \in {"run", "join", "get_results", "returned"}

\* C26: init() creates a bounded pool: for n matching databases no more
\* workers than MAX_WORKERS and no more than n, one per database when n is
\* at most MAX_WORKERS.
C26_PoolBoundedByDatabases ==
    InitDone
       => /\ Len(workers) <= MAX_WORKERS
          /\ Len(workers) <= Len(databases)
          /\ Len(databases) <= MAX_WORKERS => Len(workers) = Len(databases)

\* C31: a process that is not running as root executes neither validation
\* nor any pipeline step: no step is entered, no LuksEncryptor is built, the
\* only subprocess is the pip install of the missing module, nothing on the
\* machine changes, the process is never stuck (it re-executes itself at
\* most once), and when it has ended it has ended with a non-zero status.
C31_NotRootRunsNothing ==
    uid # 0
       => /\ steps = <<>>
          /\ luks = NoLuks
          /\ typed = <<>>
          /\ pc \in {"main", "handle_missing_xkcdpass", "getuid", "exit"}
          /\ \A i \in 1..Len(calls) : calls[i].by = "handle_missing_xkcdpass"
          /\ sys.formats = 0 /\ sys.keyfile = NoFile /\ sys.backup = NoFile
          /\ execs <= 1
          /\ pc = "handle_missing_xkcdpass" => execs < MaxExecs
          /\ pc = "exit" => exitCode # 0

\* An unprivileged process whose module was installed and which restarted
\* was stopped by the root check.
C31_Witness ==
    /\ uid # 0
    /\ pc = "exit"
    /\ diag = "NotRoot"
    /\ exitCode # 0
    /\ execs = 1

====
